---- MODULE Spec2Model ----
(***************************************************************************)
(* Model of the phase state machine of SimpleCodeGeneratorAgent            *)
(* (worker/agents/core/simpleGeneratorAgent.ts) together with the          *)
(* deep-debug session, the file manager and the tools that drive them.     *)
(*                                                                         *)
(* The agent is a single-threaded actor: code between two awaits runs      *)
(* atomically, and other handlers interleave only at an await on external  *)
(* work (sandbox, inference, registry).  Every action below is one such    *)
(* atomic stretch of code: the continuation of one await up to the next.   *)
(* Awaits that only hop a microtask (an async function that returns        *)
(* without external I/O) are not interleaving points.                      *)
(***************************************************************************)
EXTENDS Integers, Sequences, FiniteSets, TLC

(***************************************************************************)
(* Program constants                                                       *)
(***************************************************************************)
MAX_PHASES == 12
QUEUE_RECHARGE == 3
MIN_MESSAGES_FOR_CLEANUP == 25
LOOP_WINDOW == 600000

(***************************************************************************)
(* Bounds of the model                                                     *)
(***************************************************************************)
MaxPhases == 2      \* PlanNextPhase adds a phase only while fewer than MaxPhases were added
MaxPending == 1     \* queueUserRequest is taken only while Len(pendingUserInputs) < MaxPending
MaxRuns == 2        \* activations of launchStateMachine the model can hold at once
MaxDebug == 2       \* activations of executeDeepDebug the model can hold at once

MaxTurns == 1        \* handleUserInput activations in progress at once
MaxTranscripts == 1  \* distinct transcripts a debug session can return
MaxMessages == 1     \* conversation messages that turns add
MaxStored == 2       \* length of a conversation list stored by an earlier activation
MaxFiles == 2        \* length of a file list passed to saveGeneratedFiles
MaxSyncs == 1        \* syncs from git HEAD that are pending at once
MaxCalls == 4        \* tool calls of a deep debug session
MaxTicks == 3        \* steps of the clock during a deep debug session
MaxHistory == 2      \* length of the running history of a conversation_state message
MaxCommands == 8     \* commands handed to one executeCommands call
MaxExec == 2         \* calls of executeCommands and execCommands
MaxGitCalls == 3     \* calls of the implementation of a git tool
MaxQueue == 2        \* requests of different texts that are pending at once

RunIds == 1..MaxRuns
DebugIds == 1..MaxDebug
TurnIds == 1..MaxTurns
Transcripts == 1..MaxTranscripts

\* conversationId values: REVIEW_ID is the one generated for the message of
\* the review cycle, the others are generated for the messages of the turns
REVIEW_ID == 0
TurnMessageIds == 1..MaxMessages
ConversationIds == {REVIEW_ID} \cup TurnMessageIds
Contents == {"old", "new"}
Messages == [conversationId : ConversationIds, content : Contents]

(***************************************************************************)
(* Input domains                                                           *)
(***************************************************************************)
Paths == {"a"}
PlanNames == {"Core"}
EARLIER == "Earlier"    \* the name of the phases planned before the model starts
Requests == {"r1"}
FINALIZATION == "Finalization and Review"

NoPhase == [name |-> "none", files |-> {}, lastPhase |-> FALSE]

\* blueprint.initialPhase: produced with the blueprint, not by PlanNextPhase
InitialPhase == [name |-> "Initial", files |-> {"a"}, lastPhase |-> FALSE]

\* the phase concept built by executeFinalizing
FinalizationPhase == [name |-> FINALIZATION, files |-> {}, lastPhase |-> TRUE]

\* what PlanNextPhase can answer: a phase concept whose file concepts are
\* files, those of del carrying changes = "delete"; files = {} is "no phase"
PlanResults ==
    { res \in [name : PlanNames, files : SUBSET Paths, del : SUBSET Paths,
               lastPhase : BOOLEAN] :
        /\ res.del \subseteq res.files
        /\ res.files = {} => ~res.lastPhase }

VARIABLES
    state,                  \* this.state, the persisted CodeGenState
    gitHead,                \* paths of the files at git HEAD
    templateDetailsCache,   \* TRUE when the template details are loaded
    generationPromise,      \* "null" | "pending" | "rejected"
    currentAbortController, \* "undefined" | "live"
    deepDebugPromise,       \* "null" | "pending" | "settled"
    runs,                   \* activations of launchStateMachine
    dbg,                    \* activations of executeDeepDebug
    genWaiters,             \* kinds of generateAllFiles calls suspended on generationPromise
    sent,                   \* message types broadcast since the last generation_started
    finalizationImpls,      \* implementPhase calls on the finalization phase (saturates at 2)
    lastOp,                 \* how the last generateAllFiles / stopGeneration call went
    turns,                  \* activations of handleUserInput (conversation turns)
    full_conversations,     \* the messages column of the full_conversations row
    compact_conversations,  \* the messages column of the compact_conversations row
    fileStore,              \* generatedFilesMap and git HEAD with the contents of the files
    persisted,              \* the CodeGenState found in storage, legacy fields included
    registry,               \* the row of the app in the registry (AppService)
    projectCall,            \* the last updateProjectName / updateBlueprint call
    debugger,               \* the DeepCodeDebugger of a session: loop detection and tool calls
    phaseImpl,              \* one implementPhase call, step by step, with the events it broadcasts
    chat,                   \* the chat view of a client and the conversation_state message it receives
    commandRun,             \* executeCommands and execCommands calls, step by step, and commandsHistory
    gitTool                 \* a git tool, the commands its schema offers and the calls it made on the git store

vars == <<state, gitHead, templateDetailsCache, generationPromise,
          currentAbortController, deepDebugPromise, runs, dbg, genWaiters,
          sent, finalizationImpls, lastOp, turns, full_conversations,
          compact_conversations, fileStore, persisted, registry, projectCall,
          debugger, phaseImpl,
          chat,
          commandRun,
          gitTool>>

\* the runs, sessions, turns and conversation of the agent
runVars == <<templateDetailsCache, generationPromise, currentAbortController,
             deepDebugPromise, runs, dbg, genWaiters, sent, finalizationImpls,
             lastOp, turns, full_conversations, compact_conversations>>

\* the agent: its state, the repository and the above
agentVars == <<state, gitHead, runVars>>

\* the components that the state machine, the sessions and the turns leave alone
componentVars ==
    <<fileStore, persisted, registry, projectCall, debugger, phaseImpl,
      chat,
      commandRun,
      gitTool>>

\* the SQL tables of the conversation
convVars == <<full_conversations, compact_conversations>>

(***************************************************************************)
(* Helpers                                                                 *)
(***************************************************************************)
FreeRun ==
    [pc |-> "free", currentDevState |-> "IDLE", phaseConcept |-> NoPhase,
     userContext |-> <<>>, sig |-> "none", firstState |-> "IDLE",
     firstOp |-> "none", stopped |-> FALSE, opAfterStop |-> FALSE,
     raised |-> "none"]

FreeDebug ==
    [pc |-> "free", phaseName |-> "none", sig |-> "none", toolSig |-> "none",
     previousTranscript |-> 0]

\* a handleUserInput activation: callCount is the counter of the deep_debug
\* tool built for the turn; calls (the deep_debug invocations of the turn,
\* saturating at 2), result and transcript (what the last invocation
\* returned), waited and session record what the assistant did with the
\* tools (0 stands for null, and for no transcript); conversationState is
\* the state passed to the conversation processor
NoTurn ==
    [pc |-> "none", callCount |-> 0, calls |-> 0, result |-> "none",
     transcript |-> 0, waited |-> FALSE, session |-> 0,
     conversationState |-> [runningHistory |-> <<>>, fullHistory |-> <<>>]]

\* texts (names, titles, descriptions) are tuples of characters
LowerCase == {"a", "b", "c", "d", "e", "f", "g", "h", "i", "j", "k", "l", "m",
              "n", "o", "p", "q", "r", "s", "t", "u", "v", "w", "x", "y", "z"}
Digits == {"0", "1", "2", "3", "4", "5", "6", "7", "8", "9"}

\* the project name generated by initialize (lines 233-243)
InitialName == <<"a", "p", "p">>
InitialTitle == <<"T">>

\* the blueprint of the agent: two whitelisted keys besides projectName,
\* and initialPhase, which is not whitelisted (here the text of the phase)
BlueprintKeys == {"title", "projectName", "description", "initialPhase"}

NewBlueprint ==
    [k \in BlueprintKeys |->
        CASE k = "title" -> InitialTitle
          [] k = "projectName" -> InitialName
          [] k = "description" -> <<"D">>
          [] k = "initialPhase" -> <<"I">>]

\* the registry row of the app as createApp left it (lines 562-577): the
\* title is blueprint.title
NewRegistry == [title |-> InitialTitle]

\* no call yet: op is the operation, newName and patch its argument,
\* returned what updateProjectName returned, sandboxCalled and
\* registryCalled whether the sandbox service and AppService.updateApp were
\* called, events the messages broadcast by the call, seq tells one call
\* from the next
NoProjectCall ==
    [op |-> "none", newName |-> <<>>, patch |-> <<>>, returned |-> "none",
     sandboxCalled |-> FALSE, registryCalled |-> FALSE, events |-> <<>>,
     seq |-> 0]

\* a DeepCodeDebugger as constructed (loopDetection, lines 573-576), with
\* the clock of the worker (now, in milliseconds), the number of user
\* messages saved by injectLoopWarning (warnings), the number of tool
\* implementations run (executed), the number of tool calls (calls) and,
\* for the last call, the number of earlier identical calls in the window
\* (matching)
NewDebugger ==
    [recentCalls |-> <<>>, repetitionWarnings |-> 0, now |-> 0,
     warnings |-> 0, executed |-> 0, calls |-> 0, matching |-> 0]

\* no implementPhase call yet: pc is the await the call is at, files the
\* paths of phase.files, open the file being generated ("" for none),
\* chunked whether a chunk of it was sent, closed the files generated,
\* finalFiles the files of the settled fixer promises, commands whether
\* the result has install commands, packageSyncs the saveExecutedCommands
\* calls that nothing awaits, events the messages broadcast, in order
NoPhaseImpl ==
    [pc |-> "idle", files |-> {}, open |-> "", chunked |-> FALSE,
     closed |-> {}, finalFiles |-> {}, commands |-> FALSE,
     packageSyncs |-> 0, events |-> <<>>]

ActiveRuns == { r \in RunIds : runs[r].pc # "free" }

isCodeGenerating == generationPromise # "null"
isDeepDebugging == deepDebugPromise # "null"

\* the message types the model keeps track of: those of the run boundary
Tracked == {"generation_started", "generation_complete", "generation_stopped",
            "rate_limit_error", "error", "conversation_cleared"}

\* this.broadcast(type, ...)
broadcast(s, type) == IF type \in Tracked THEN s \cup {type} ELSE s

\* the abort signal an operation captured can no longer be reached through
\* this.currentAbortController once the field is reset without abort()
DetachSig(s) == IF s = "current" THEN "detached" ELSE s

Detach(f) == [i \in DOMAIN f |-> [f[i] EXCEPT !.sig = DetachSig(@)]]

DetachDebug(f) ==
    [i \in DOMAIN f |-> [f[i] EXCEPT !.sig = DetachSig(@), !.toolSig = DetachSig(@)]]

\* abort() on the current controller reaches every operation holding its signal
AbortSig(s) == IF s = "current" THEN "aborted" ELSE s

Abort(f) == [i \in DOMAIN f |-> [f[i] EXCEPT !.sig = AbortSig(@)]]

AbortDebug(f) ==
    [i \in DOMAIN f |-> [f[i] EXCEPT !.sig = AbortSig(@), !.toolSig = AbortSig(@)]]

rechargePhasesCounter_Inverted(st, max_phases) ==
    IF st.phasesCounter >= max_phases
    THEN [st EXCEPT !.phasesCounter = max_phases]
    ELSE st

rechargePhasesCounter(st, max_phases) ==
    IF st.phasesCounter <= max_phases
    THEN [st EXCEPT !.phasesCounter = max_phases]
    ELSE st

decrementPhasesCounter_NotStored(st) == st

decrementPhasesCounter(st) ==
    [st EXCEPT !.phasesCounter = st.phasesCounter - 1]

createNewIncompletePhase(st, phaseConcept) ==
    [st EXCEPT !.generatedPhases =
        Append(st.generatedPhases,
               [name |-> phaseConcept.name, files |-> phaseConcept.files,
                lastPhase |-> phaseConcept.lastPhase, completed |-> FALSE])]

markPhaseComplete(st, phaseName) ==
    IF ~(\E i \in DOMAIN st.generatedPhases : st.generatedPhases[i].name = phaseName)
    THEN st
    ELSE [st EXCEPT !.generatedPhases =
            [i \in DOMAIN st.generatedPhases |->
                IF st.generatedPhases[i].name = phaseName
                THEN [st.generatedPhases[i] EXCEPT !.completed = TRUE]
                ELSE st.generatedPhases[i]]]

fetchPendingUserRequests_KeepsLast(st) ==
    IF Len(st.pendingUserInputs) > 0
    THEN [st EXCEPT !.pendingUserInputs = SubSeq(@, Len(@), Len(@))]
    ELSE st

fetchPendingUserRequests(st) ==
    IF Len(st.pendingUserInputs) > 0
    THEN [st EXCEPT !.pendingUserInputs = <<>>]
    ELSE st

\* FileManager.deleteFiles: removes the paths from generatedFilesMap only
FileManager_deleteFiles(st, filePaths) ==
    [st EXCEPT !.generatedFilesMap = st.generatedFilesMap \ filePaths]

\* GitVersionControl.commit: HEAD gains the committed files
gitCommit(head, files) == head \cup files

\* FileManager.syncGeneratedFilesMapFromGit: the map is rebuilt from HEAD
syncGeneratedFilesMapFromGit(st, head) ==
    [st EXCEPT !.generatedFilesMap = head]

\* FileManager.saveGeneratedFiles with a commit message: the files enter the
\* map; when some file has a non-empty diff (changed) they are committed and
\* the commit's callback rebuilds the map from HEAD.
saveGeneratedFiles(st, head, files, changed) ==
    LET st1 == [st EXCEPT !.generatedFilesMap = st.generatedFilesMap \cup files]
        shouldCommit == files # {} /\ changed
    IN  IF shouldCommit
        THEN [state |-> syncGeneratedFilesMapFromGit(st1, gitCommit(head, files)),
              head |-> gitCommit(head, files)]
        ELSE [state |-> st1, head |-> head]

\* a file that is new to the map and to HEAD always has a non-empty diff
\* against the empty base unless the template holds the same contents; for
\* the other files the diff depends on the contents
ChangedChoices(st, files) == IF files = {} THEN {FALSE} ELSE BOOLEAN

Incomplete(phases) == SelectSeq(phases, LAMBDA p : ~p.completed)

\* the phases the model has seen being added
PhasesAdded(phases) == Len(SelectSeq(phases, LAMBDA p : p.name # EARLIER))

Concept(p) == [name |-> p.name, files |-> p.files, lastPhase |-> p.lastPhase]

(***************************************************************************)
(* The file store with the contents of the files: FileManager over         *)
(* state.generatedFilesMap and the git repository.  fileStore holds        *)
(*   generatedFilesMap  path -> [fileContents, filePurpose, lastDiff]      *)
(*   head               path -> contents of the file at git HEAD           *)
(*   pendingSyncs       calls of syncGeneratedFilesMapFromGit suspended    *)
(*                      on getAllFilesFromHead()                           *)
(*   files              the list of files that the caller saves            *)
(*   saved, returned, committed, deleted                                   *)
(*                      the last saveGeneratedFiles, what it returned and  *)
(*                      whether it made a commit, and the paths deleted    *)
(*                      and not saved since                                *)
(*   synced             the last call was a sync that rebuilt the map      *)
(***************************************************************************)
StorePaths == {"a", "b"}
FileContents == {"x", "y"}
\* applyDeterministicCodeFixes saves files with the purpose '' when it
\* finds none (line 1571)
Purposes == {"", "p"}
GENERATED_FILE == "Generated file"

\* templateDetails.allFiles
TemplateAllFiles == [path \in {"a"} |-> "x"]

FileOutputs ==
    [filePath : StorePaths, fileContents : FileContents, filePurpose : Purposes]

FileLists == UNION { [1..n -> FileOutputs] : n \in 0..MaxFiles }

\* lastDiff = '' is the empty sequence; Diff.createPatch gives a patch that
\* names the file and carries both contents
NoDiff == <<>>

createPatch(filePath, oldStr, newStr) == <<filePath, oldStr, newStr>>

\* saved.valid: generatedFilesMap holds the files that the last
\* saveGeneratedFiles stored; saved.seq tells one call from the next
NoSave == [valid |-> FALSE, commitMessage |-> FALSE, seq |-> 0]

NewFileStore ==
    [generatedFilesMap |-> <<>>, head |-> <<>>, pendingSyncs |-> 0, files |-> <<>>,
     saved |-> NoSave, returned |-> <<>>, committed |-> FALSE, deleted |-> {},
     synced |-> FALSE]

Put(map, key, value) ==
    [k \in DOMAIN map \cup {key} |-> IF k = key THEN value ELSE map[k]]

Remove(map, keys) == [k \in DOMAIN map \ keys |-> map[k]]

\* FileManager.getFile: the generated file, else the template file, else
\* null; the contents, '' standing for null
getFileContents(generatedFilesMap, filePath) ==
    IF filePath \in DOMAIN generatedFilesMap
    THEN generatedFilesMap[filePath].fileContents
    ELSE IF filePath \in DOMAIN TemplateAllFiles
    THEN TemplateAllFiles[filePath]
    ELSE ""

oldFileContents_TemplateOnly(filesMap, generatedFilesMap, filePath) ==
    getFileContents(<<>>, filePath)

\* the comparison base of saveGeneratedFiles (lines 248-251): filesMap is
\* the copy the loop writes to, generatedFilesMap the map in this.state
oldFileContents(filesMap, generatedFilesMap, filePath) ==
    IF filePath \in DOMAIN filesMap
    THEN filesMap[filePath].fileContents
    ELSE getFileContents(generatedFilesMap, filePath)

\* the loop of saveGeneratedFiles (lines 246-271)
RECURSIVE saveLoop(_, _, _)
saveLoop(filesMap, generatedFilesMap, files) ==
    IF files = <<>>
    THEN [filesMap |-> filesMap, fileStates |-> <<>>]
    ELSE LET file == Head(files)
             old == oldFileContents(filesMap, generatedFilesMap, file.filePath)
             lastDiff == IF old # file.fileContents
                         THEN createPatch(file.filePath, old, file.fileContents)
                         ELSE NoDiff
             fileState == [filePath |-> file.filePath,
                           fileContents |-> file.fileContents,
                           filePurpose |-> file.filePurpose,
                           lastDiff |-> lastDiff]
             rest == saveLoop(Put(filesMap, file.filePath,
                                  [fileContents |-> file.fileContents,
                                   filePurpose |-> file.filePurpose,
                                   lastDiff |-> lastDiff]),
                              generatedFilesMap, Tail(files))
         IN  [filesMap |-> rest.filesMap,
              fileStates |-> <<fileState>> \o rest.fileStates]

\* GitVersionControl.commit(files, message): the files are written in the
\* order of the list and HEAD moves to the new commit; when nothing differs
\* from HEAD there is no commit (the oid is null) and no file has changed
RECURSIVE commitFiles(_, _)
commitFiles(head, fileStates) ==
    IF fileStates = <<>>
    THEN head
    ELSE commitFiles(Put(head, Head(fileStates).filePath, Head(fileStates).fileContents),
                     Tail(fileStates))

Store_syncGeneratedFilesMapFromGit_Merge(fs) ==
    [fs EXCEPT !.generatedFilesMap =
        [path \in DOMAIN fs.generatedFilesMap \cup DOMAIN fs.head |->
            IF path \in DOMAIN fs.head
            THEN [fileContents |-> fs.head[path],
                  filePurpose |-> IF path \in DOMAIN fs.generatedFilesMap
                                     /\ fs.generatedFilesMap[path].filePurpose # ""
                                  THEN fs.generatedFilesMap[path].filePurpose
                                  ELSE GENERATED_FILE,
                  lastDiff |-> NoDiff]
            ELSE fs.generatedFilesMap[path]],
               !.synced = TRUE]

\* FileManager.syncGeneratedFilesMapFromGit after getAllFilesFromHead() has
\* answered (lines 185-205): `existing?.filePurpose || 'Generated file'`
Store_syncGeneratedFilesMapFromGit(fs) ==
    [fs EXCEPT !.generatedFilesMap =
        [path \in DOMAIN fs.head |->
            [fileContents |-> fs.head[path],
             filePurpose |-> IF path \in DOMAIN fs.generatedFilesMap
                                /\ fs.generatedFilesMap[path].filePurpose # ""
                             THEN fs.generatedFilesMap[path].filePurpose
                             ELSE GENERATED_FILE,
             lastDiff |-> NoDiff]],
               !.synced = TRUE]

\* FileManager.saveGeneratedFiles(files, commitMessage): hasMessage tells
\* whether a commit message was given, gitOk whether git.commit or
\* git.stage returned (an error is caught at line 292)
Store_saveGeneratedFiles(fs, files, hasMessage, gitOk) ==
    LET loop == saveLoop(fs.generatedFilesMap, fs.generatedFilesMap, files)
        fileStates == loop.fileStates
        shouldCommit == Len(fileStates) > 0
                        /\ \E i \in 1..Len(fileStates) : fileStates[i].lastDiff # NoDiff
        newHead == IF shouldCommit /\ hasMessage /\ gitOk
                   THEN commitFiles(fs.head, fileStates)
                   ELSE fs.head
    IN  [fs EXCEPT !.generatedFilesMap = loop.filesMap,
                   !.head = newHead,
                   !.pendingSyncs = IF newHead # fs.head THEN @ + 1 ELSE @,
                   !.saved = [valid |-> TRUE, commitMessage |-> hasMessage,
                              seq |-> 1 - fs.saved.seq],
                   !.returned = fileStates,
                   !.committed = newHead # fs.head,
                   !.synced = FALSE,
                   !.deleted = @ \ { files[i].filePath : i \in 1..Len(files) }]

\* FileManager.deleteFiles(filePaths)
Store_deleteFiles(fs, filePaths) ==
    [fs EXCEPT !.generatedFilesMap = Remove(@, filePaths),
               !.saved = [NoSave EXCEPT !.seq = fs.saved.seq],
               !.deleted = @ \cup filePaths,
               !.synced = FALSE]

(***************************************************************************)
(* updateProjectName and updateBlueprint                                   *)
(***************************************************************************)
\* the names tried: two that match, one too short, one with a capital and
\* a blank, the empty one, one of 51 characters
LongName == [i \in 1..51 |-> "a"]

Names ==
    { <<"a", "p", "p">>,
      <<"m", "y", "-", "a", "p", "p", "_", "1">>,
      <<"a", "b">>,
      <<"M", "y", " ", "A", "p", "p">>,
      <<>>,
      LongName }

\* /^[a-z0-9-_]{3,50}$/.test(newName)
valid(newName) ==
    /\ Len(newName) >= 3
    /\ Len(newName) <= 50
    /\ \A i \in 1..Len(newName) : newName[i] \in LowerCase \cup Digits \cup {"-", "_"}

\* what a call of the sandbox service or of AppService.updateApp does
CallOutcomes == {"true", "false", "throws"}

\* AppService.updateApp(id, {title}): the row gets the title when the call
\* answers true
updateApp(reg, title, dbOk) ==
    IF dbOk = "true" THEN [reg EXCEPT !.title = title] ELSE reg

updateProjectName_SetsFirst(st, reg, newName, sandboxOk, dbOk) ==
    LET renamed == [st EXCEPT !.blueprint = [st.blueprint EXCEPT !["projectName"] = newName]]
    IN  IF ~valid(newName)
        THEN [state |-> renamed, registry |-> reg, returned |-> "false",
              sandboxCalled |-> FALSE, registryCalled |-> FALSE, events |-> <<>>]
        ELSE [state |-> renamed,
              registry |-> updateApp(reg, newName, dbOk),
              returned |-> IF (st.sandboxInstanceId => sandboxOk = "true") /\ dbOk = "true"
                           THEN "true" ELSE "false",
              sandboxCalled |-> st.sandboxInstanceId,
              registryCalled |-> TRUE,
              events |-> <<"project_name_updated">>]

\* updateProjectName(newName), lines 1597-1631: the new state and registry
\* row, the value returned, the calls made and the events broadcast
updateProjectName(st, reg, newName, sandboxOk, dbOk) ==
    IF ~valid(newName)
    THEN [state |-> st, registry |-> reg, returned |-> "false",
          sandboxCalled |-> FALSE, registryCalled |-> FALSE, events |-> <<>>]
    ELSE [state |-> [st EXCEPT !.blueprint =
                        [st.blueprint EXCEPT !["projectName"] = newName]],
          registry |-> updateApp(reg, newName, dbOk),
          returned |-> IF (st.sandboxInstanceId => sandboxOk = "true") /\ dbOk = "true"
                       THEN "true" ELSE "false",
          sandboxCalled |-> st.sandboxInstanceId,
          registryCalled |-> TRUE,
          events |-> <<"project_name_updated">>]

\* the whitelist of updateBlueprint (lines 1635-1648)
allowed ==
    {"title", "projectName", "detailedDescription", "description",
     "colorPalette", "views", "userFlow", "dataFlow", "architecture",
     "pitfalls", "frameworks", "implementationRoadmap"}

\* the patches tried: any keys of the blueprint, with these values
PatchValues(k) ==
    CASE k = "title" -> {<<"U">>}
      [] k = "projectName" -> Names
      [] k = "description" -> {<<"E">>}
      [] k = "initialPhase" -> {<<"J">>}

Patches ==
    UNION { { f \in [K -> UNION {PatchValues(k) : k \in K}] :
                \A k \in K : f[k] \in PatchValues(k) } : K \in SUBSET BlueprintKeys }

\* { ...blueprint, ...filtered }
Merge(blueprint, filtered) ==
    [k \in DOMAIN blueprint \cup DOMAIN filtered |->
        IF k \in DOMAIN filtered THEN filtered[k] ELSE blueprint[k]]

\* updateBlueprint(patch), lines 1633-1669
updateBlueprint(st, reg, patch, sandboxOk, dbOk) ==
    LET filtered == [k \in DOMAIN patch \cap allowed |-> patch[k]]
        delegated == "projectName" \in DOMAIN filtered /\ filtered["projectName"] # <<>>
        renamed == IF delegated
                   THEN updateProjectName(st, reg, filtered["projectName"], sandboxOk, dbOk)
                   ELSE [state |-> st, registry |-> reg, returned |-> "none",
                         sandboxCalled |-> FALSE, registryCalled |-> FALSE,
                         events |-> <<>>]
        rest == IF delegated
                THEN [k \in DOMAIN filtered \ {"projectName"} |-> filtered[k]]
                ELSE filtered
    IN  [renamed EXCEPT
           !.state = [renamed.state EXCEPT !.blueprint = Merge(renamed.state.blueprint, rest)],
           !.events = renamed.events \o <<"blueprint_updated">>]

(***************************************************************************)
(* The loop detection of DeepCodeDebugger                                  *)
(***************************************************************************)
\* the clock moves by half the window at a time
Tick == LOOP_WINDOW \div 2

DebugToolNames == {"read_files", "run_analysis"}

\* arguments: the fields of the object in the order of the call
DebugToolArgs == { <<>>, << <<"path", "a">> >> }

\* JSON.stringify(args): the fields as key:value, in their order
stringify(args) == [i \in 1..Len(args) |-> <<args[i][1], ":", args[i][2]>>]

\* the calls of recentCalls made less than LOOP_WINDOW before now (line 592)
recent(recentCalls, now) ==
    SelectSeq(recentCalls, LAMBDA call : now - call.timestamp < LOOP_WINDOW)

\* the calls among them with this name and these arguments (line 597)
matchingCalls(recentCalls, toolName, argsStr) ==
    SelectSeq(recentCalls, LAMBDA call : call.toolName = toolName /\ call.args = argsStr)

\* detectRepetition(toolName, args), lines 587-606: the new recentCalls and
\* the answer
detectRepetition(d, toolName, args) ==
    LET argsStr == stringify(args)
        kept == recent(d.recentCalls, d.now)
        matching == matchingCalls(kept, toolName, argsStr)
    IN  [recentCalls |-> Append(kept, [toolName |-> toolName, args |-> argsStr,
                                       timestamp |-> d.now]),
         matching |-> Len(matching),
         detected |-> Len(matching) >= 2]

\* the implementation of a wrapped tool (lines 662-677): the warning is
\* injected on a repetition, and tool.implementation(args) runs in any case
wrappedImplementation(d, toolName, args) ==
    LET detection == detectRepetition(d, toolName, args)
    IN  [d EXCEPT !.recentCalls = detection.recentCalls,
                  !.repetitionWarnings = IF detection.detected THEN @ + 1 ELSE @,
                  !.warnings = IF detection.detected THEN @ + 1 ELSE @,
                  !.executed = @ + 1,
                  !.calls = @ + 1,
                  !.matching = detection.matching]

(***************************************************************************)
(* The chat view: case 'conversation_state' of the websocket message       *)
(* handler.  A text is the tuple of its words (the words are one blank     *)
(* apart); the word "" is an empty text between two blanks.                *)
(***************************************************************************)
SENTINEL == <<"<Internal", "Memo>">>

\* text.includes(needle)
includes(text, needle) ==
    \E i \in 0..(Len(text) - Len(needle)) :
        SubSeq(text, i + 1, i + Len(needle)) = needle

\* a content is a string, an array of parts (text or image) or null
StringContent(text) == [kind |-> "string", text |-> text, parts |-> <<>>]
ArrayContent(parts) == [kind |-> "array", text |-> <<>>, parts |-> parts]
NullContent == [kind |-> "null", text |-> <<>>, parts |-> <<>>]
TextPart(text) == [type |-> "text", text |-> text]
ImagePart == [type |-> "image_url", text |-> <<>>]

MessageContents ==
    { NullContent,
      StringContent(<<"hi">>),
      StringContent(<<"<Internal", "Memo>">>),
      StringContent(<<"hi", "<Internal", "Memo>", "hi">>),
      StringContent(<<"<Internal">>),
      ArrayContent(<<TextPart(<<"<Internal">>), TextPart(<<"Memo>">>)>>),
      ArrayContent(<<TextPart(<<"<Internal">>), ImagePart, TextPart(<<"Memo>">>)>>),
      ArrayContent(<<ImagePart, TextPart(<<"hi">>), TextPart(<<"<Internal", "Memo>">>)>>) }

\* conversation ids: <<"archive", n>> is 'archive-n', <<"conv", n>> 'conv-n'
HistoryMessages ==
    [role : {"user", "tool"}, conversationId : {<<"conv", 1>>}, content : MessageContents]
    \cup [role : {"assistant"}, conversationId : {<<"conv", 1>>, <<"archive", 1>>},
          content : MessageContents]

Histories == UNION { [1..n -> HistoryMessages] : n \in 0..MaxHistory }

\* parts.map(c => c.type === 'text' ? c.text : '').join(' '): an image
\* gives the empty text
RECURSIVE joinParts(_)
joinParts(parts) ==
    IF parts = <<>> THEN <<>>
    ELSE (IF Head(parts).type = "text" /\ Head(parts).text # <<>>
          THEN Head(parts).text ELSE <<"">>) \o joinParts(Tail(parts))

\* String.prototype.trim
RECURSIVE trim(_)
trim(text) ==
    IF text = <<>> THEN <<>>
    ELSE IF Head(text) = "" THEN trim(Tail(text))
    ELSE IF text[Len(text)] = "" THEN trim(SubSeq(text, 1, Len(text) - 1))
    ELSE text

\* extractTextContent (lines 85-95)
extractTextContent(content) ==
    CASE content.kind = "string" -> content.text
      [] content.kind = "array" -> trim(joinParts(content.parts))
      [] OTHER -> <<>>

hidden_Strings(msg) ==
    msg.content.kind = "string" /\ includes(msg.content.text, SENTINEL)

\* line 301: the message is skipped
hidden(msg) == includes(extractTextContent(msg.content), SENTINEL)

COMPACTED == <<"previous history was compacted">>
DEBUG_IN_PROGRESS_TEXT == <<"Deep debug session in progress...">>

\* the loop of lines 299-343 from message i on: restored is
\* restoredMessages, currentAssistant the position in it of the bubble that
\* assistant messages are merged into (0 for null)
RECURSIVE restoreFrom(_, _, _, _)
restoreFrom(history, i, restored, currentAssistant) ==
    IF i > Len(history) THEN restored
    ELSE LET msg == history[i]
             text == extractTextContent(msg.content)
         IN  IF hidden(msg)
             THEN restoreFrom(history, i + 1, restored, currentAssistant)
             ELSE IF msg.role = "user"
             THEN restoreFrom(history, i + 1,
                      Append(restored, [role |-> "user",
                                        conversationId |-> msg.conversationId,
                                        content |-> text, toolEvents |-> <<>>]), 0)
             ELSE IF msg.role = "assistant"
             THEN LET content == IF msg.conversationId[1] = "archive"
                                 THEN COMPACTED ELSE text
                  IN  IF currentAssistant # 0
                      THEN restoreFrom(history, i + 1,
                               [restored EXCEPT ![currentAssistant].content =
                                   IF content = <<>> THEN @
                                   ELSE IF @ = <<>> THEN content
                                   ELSE @ \o <<"\n\n">> \o content],
                               currentAssistant)
                      ELSE restoreFrom(history, i + 1,
                               Append(restored, [role |-> "assistant",
                                                 conversationId |-> msg.conversationId,
                                                 content |-> content,
                                                 toolEvents |-> <<>>]),
                               Len(restored) + 1)
             ELSE IF currentAssistant # 0
             THEN restoreFrom(history, i + 1,
                      [restored EXCEPT ![currentAssistant].toolEvents =
                          Append(@, [name |-> "tool", result |-> text])],
                      currentAssistant)
             ELSE restoreFrom(history, i + 1, restored, currentAssistant)

\* lines 345-397: the bubble of a running deep debug session (session is
\* its conversation id, <<>> for none)
restoreDebugSession(restored, session) ==
    IF session = <<>> THEN restored
    ELSE IF \E i \in 1..Len(restored) :
               restored[i].role = "assistant" /\ restored[i].conversationId = session
    THEN LET i == CHOOSE k \in 1..Len(restored) :
                     /\ restored[k].role = "assistant"
                     /\ restored[k].conversationId = session
                     /\ \A j \in 1..(k - 1) :
                           ~(restored[j].role = "assistant"
                             /\ restored[j].conversationId = session)
         IN  [restored EXCEPT ![i].toolEvents =
                 Append(@, [name |-> "deep_debug", result |-> <<>>])]
    ELSE Append(restored, [role |-> "assistant", conversationId |-> session,
                           content |-> DEBUG_IN_PROGRESS_TEXT,
                           toolEvents |-> <<[name |-> "deep_debug", result |-> <<>>]>>])

\* deduplicateMessages of the chat view: of the assistant messages with one
\* content the first is kept
RECURSIVE deduplicateChat(_, _)
deduplicateChat(messages, seen) ==
    IF messages = <<>> THEN <<>>
    ELSE LET m == Head(messages)
         IN  IF m.role = "assistant" /\ m.content \in seen
             THEN deduplicateChat(Tail(messages), seen)
             ELSE <<m>> \o deduplicateChat(Tail(messages),
                              IF m.role = "assistant" THEN seen \cup {m.content}
                              ELSE seen)

\* the placeholders the view can hold when the message arrives
FETCHING == [role |-> "assistant", conversationId |-> <<"fetching-chat", 0>>,
             content |-> <<"fetching">>, toolEvents |-> <<>>]
RECONNECTED == [role |-> "assistant", conversationId |-> <<"websocket_reconnected", 0>>,
                content |-> <<"reconnected">>, toolEvents |-> <<>>]

\* case 'conversation_state' (lines 285-425): the messages of the view
handleConversationState(prev, history, session) ==
    LET restoredMessages ==
            restoreDebugSession(restoreFrom(history, 1, <<>>, 0), session)
        deduplicated == deduplicateChat(restoredMessages, {})
    IN  IF Len(restoredMessages) > 0
        THEN IF \E i \in 1..Len(prev) : prev[i].conversationId[1] = "fetching-chat"
             THEN [i \in 1..Len(prev) |->
                      IF prev[i].conversationId[1] = "fetching-chat"
                      THEN [prev[i] EXCEPT !.toolEvents =
                               Append(@, [name |-> "fetching your latest conversations",
                                          result |-> <<>>])]
                      ELSE prev[i]] \o deduplicated
             ELSE IF \E i \in 1..Len(prev) :
                        prev[i].conversationId[1] = "websocket_reconnected"
             THEN prev \o deduplicated
             ELSE deduplicated
        ELSE prev

\* no message received yet: history and session are those of the message
\* to come, messages the view, received whether the handler has run
NoChat == [history |-> <<>>, session |-> <<>>, messages |-> <<>>, received |-> FALSE]

(***************************************************************************)
(* Commands in the sandbox: executeCommands, execCommands and              *)
(* saveExecutedCommands.  A command is the tuple of its words.             *)
(***************************************************************************)
CHUNK_SIZE == 5      \* chunkSize: number = 5
MAX_RETRIES == 3     \* maxRetries = shouldRetry ? 3 : 1

\* the commands a caller hands over are the first n of this list
CommandList ==
    << <<"ls">>, <<"npm", "install", "b">>, <<"bun", "install", "b">>,
       <<"mkdir", "d">>, <<"pip", "install", "z">>, <<"ls">>, <<"touch", "y">>,
       <<"bun", "add", "a">>, <<"rm", "x">>, <<"echo", "undefined">> >>

CommandInputs == { SubSeq(CommandList, 1, n) : n \in {0, 3, MaxCommands} }

\* the commands a tool hands to execCommands
ExecInputs == { SubSeq(CommandList, 1, n) : n \in {1, 2} }

\* the positions of a chunk of n commands that a response reports as
\* successful: all, all but the first, all but the last, or none
Outcomes(n) == {1..n, 2..n, 1..(n - 1), {}}

\* what the setup assistant answers when asked for alternative commands
AlternativeCommands ==
    { <<>>, << <<"bun", "add", "b">> >>, << <<"bun", "add", "b">>, <<"ls">> >> }

\* looksLikeCommand of utils/common: a command has a first word
looksLikeCommand(cmd) == Len(cmd) > 0 /\ cmd[1] # ""

\* cmd.includes(' undefined')
includesUndefined(cmd) == \E i \in 2..Len(cmd) : cmd[i] = "undefined"

\* cmd.replace(/^npm/, 'bun')
replaceNpm(cmd) == IF cmd[1] = "npm" THEN <<"bun">> \o Tail(cmd) ELSE cmd

\* Array.from(new Set(commands)): the first occurrences, in order
RECURSIVE uniqueCommands(_, _)
uniqueCommands(cmds, seen) ==
    IF cmds = <<>> THEN <<>>
    ELSE IF Head(cmds) \in seen THEN uniqueCommands(Tail(cmds), seen)
    ELSE <<Head(cmds)>> \o uniqueCommands(Tail(cmds), seen \cup {Head(cmds)})

prepareCommands_KeepDuplicates(cmds) ==
    LET kept == SelectSeq(cmds, LAMBDA cmd : looksLikeCommand(cmd) /\ ~includesUndefined(cmd))
    IN  [i \in 1..Len(kept) |-> replaceNpm(kept[i])]

\* lines 2067-2078: the commands are filtered, npm is replaced by bun and
\* duplicates are removed
prepareCommands(cmds) ==
    LET kept == SelectSeq(cmds, LAMBDA cmd : looksLikeCommand(cmd) /\ ~includesUndefined(cmd))
    IN  uniqueCommands([i \in 1..Len(kept) |-> replaceNpm(kept[i])], {})

\* lines 2081-2084: slices of chunkSize commands
commandChunks(cmds, chunkSize) ==
    [k \in 1..((Len(cmds) + chunkSize - 1) \div chunkSize) |->
        SubSeq(cmds, (k - 1) * chunkSize + 1,
               IF k * chunkSize < Len(cmds) THEN k * chunkSize ELSE Len(cmds))]

\* lines 2145-2147: an install command
isInstallCommand(cmd) ==
    \/ cmd[1] \in {"bun", "npm"}
    \/ \E i \in 1..Len(cmd) : cmd[i] = "install"

\* validateAndCleanBootstrapCommands of utils/common: the valid commands,
\* each once
validateAndCleanBootstrapCommands(cmds) ==
    uniqueCommands(SelectSeq(cmds, looksLikeCommand), {})

\* the synchronous part of saveExecutedCommands (lines 2013-2036)
saveExecutedCommands(run, cmds) ==
    [run EXCEPT !.commandsHistory =
                    validateAndCleanBootstrapCommands(run.commandsHistory \o cmds)]

SeqRange(cmds) == { cmds[i] : i \in 1..Len(cmds) }

\* no call of executeCommands or execCommands is running.  sends counts the
\* times the chunk at hand was sent, resent whether the last send was of
\* alternative commands after a failed install command; succeeded holds the
\* commands the sandbox has run successfully, inExecute those of them run by
\* executeCommands, passed the commands executeCommands has handed to
\* saveExecutedCommands
NoCommandRun ==
    [pc |-> "idle", calls |-> 0, shouldRetry |-> TRUE,
     commands |-> <<>>, chunks |-> <<>>, chunk |-> 0, currentChunk |-> <<>>,
     retryCount |-> 0, successfulCommands |-> <<>>, failed |-> <<>>,
     commandsHistory |-> <<>>,
     exec |-> "idle", execCommands |-> <<>>, shouldSave |-> FALSE,
     sends |-> 0, resent |-> FALSE,
     succeeded |-> {}, inExecute |-> {}, passed |-> {}]

(***************************************************************************)
(* The git tool (toolkit/git.ts)                                           *)
(***************************************************************************)
allCommands == <<"commit", "log", "show", "reset">>

\* lines 20-23: the commands of the enum of the schema
allowedCommands(excludeCommands) ==
    SelectSeq(allCommands, LAMBDA cmd : cmd \notin excludeCommands)

\* createGitTool(agent, logger, options): the tool, with the calls its
\* implementation has made on the git store and its last result ("none"
\* before the first call)
createGitTool(excludeCommands) ==
    [excludeCommands |-> excludeCommands,
     enum |-> allowedCommands(excludeCommands),
     storeCalls |-> <<>>,
     result |-> "none"]

\* no tool was created
NoGitTool == [excludeCommands |-> {}, enum |-> <<>>, storeCalls |-> <<>>,
              result |-> "none"]

\* the command values a tool call can carry: the arguments come from the
\* model's answer and are not restricted to the enum
GitCommands == {"commit", "log", "show", "reset", "status"}

\* the implementation (lines 66-141): the method called on the git store
\* ("none" for no call) and whether the result reports success; thrown says
\* that the store method throws
implementation(command, message, oid, thrown) ==
    CASE command = "commit" ->
            IF ~message THEN [call |-> "none", success |-> FALSE]
            ELSE [call |-> "commit", success |-> ~thrown]
      [] command = "log" -> [call |-> "log", success |-> ~thrown]
      [] command = "show" ->
            IF ~oid THEN [call |-> "none", success |-> FALSE]
            ELSE [call |-> "show", success |-> ~thrown]
      [] command = "reset" ->
            IF ~oid THEN [call |-> "none", success |-> FALSE]
            ELSE [call |-> "reset", success |-> ~thrown]
      [] OTHER -> [call |-> "none", success |-> FALSE]

(***************************************************************************)
(* StateMigration.migrateIfNeeded.  A stored state is                      *)
(*   file                    the format of the entry of generatedFilesMap  *)
(*   conversationMessages    messages [conversationId, content]; the id 0  *)
(*                           is a missing id, k > 0 is the id 'conv-k-..', *)
(*                           k < 0 an id that does not start with 'conv-'  *)
(*   userApiKeys, latestScreenshot, projectUpdatesAccumulator,             *)
(*   templateDetails         whether the state has the field               *)
(*   templateName, projectName                                             *)
(***************************************************************************)
LegacyIds == {-1, 0, 1, 2}
LegacyMessages == [conversationId : LegacyIds, content : {"c", "memo"}]

\* MIN_MESSAGES_FOR_CLEANUP real messages with ids of their own
Filler ==
    [i \in 1..MIN_MESSAGES_FOR_CLEANUP |-> [conversationId |-> 2 + i, content |-> "c"]]

LegacyLists == UNION { [1..n -> LegacyMessages] : n \in 0..MaxStored }

\* short lists, and lists long enough for the cleanup of internal memos
StoredConversations ==
    LegacyLists \cup {Filler} \cup { Filler \o <<message>> : message \in LegacyMessages }

StoredStates ==
    [file : {"old", "new"},
     conversationMessages : StoredConversations,
     userApiKeys : BOOLEAN,
     latestScreenshot : BOOLEAN,
     projectUpdatesAccumulator : BOOLEAN,
     templateDetails : BOOLEAN,
     templateName : {"t"},
     projectName : {"", "app-one"}]

\* persisted.state is the stored state; migrated tells that it is the
\* result of a migration, returned what the last migrateIfNeeded returned,
\* seq tells one call from the next
NewPersisted ==
    [state |-> [file |-> "new", conversationMessages |-> <<>>,
                userApiKeys |-> FALSE, latestScreenshot |-> FALSE,
                projectUpdatesAccumulator |-> TRUE, templateDetails |-> FALSE,
                templateName |-> "t", projectName |-> "app-one"],
     migrated |-> FALSE, returned |-> "none", seq |-> 0]

\* Date.now() when the loop reaches message i: the clock moves by one
\* millisecond before message boundary (0: it does not move in the loop)
DateNow(i, boundary) == IF boundary # 0 /\ i >= boundary THEN 1 ELSE 0

\* the clock is read for the messages without id only (line 57)
ClockReads(messages) == { i \in 1..Len(messages) : messages[i].conversationId = 0 }

\* the key of the deduplication (lines 54-60)
messageKey(message, now) ==
    IF message.conversationId # 0
    THEN <<message.conversationId, "", 0>>
    ELSE <<0, message.content, now>>

\* the loop of lines 53-66, from message i on
RECURSIVE uniqueFrom(_, _, _, _)
uniqueFrom(messages, i, seen, boundary) ==
    IF i > Len(messages)
    THEN <<>>
    ELSE LET key == messageKey(messages[i], DateNow(i, boundary))
         IN  IF key \notin seen
             THEN <<messages[i]>> \o uniqueFrom(messages, i + 1, seen \cup {key}, boundary)
             ELSE uniqueFrom(messages, i + 1, seen, boundary)

\* getTimestamp (lines 69-77)
getTimestamp(msg) == IF msg.conversationId > 0 THEN msg.conversationId ELSE 0

\* Array.prototype.sort is stable: msg goes behind the messages whose
\* timestamp is not greater
RECURSIVE insertByTimestamp(_, _)
insertByTimestamp(sorted, msg) ==
    IF sorted = <<>> THEN <<msg>>
    ELSE IF getTimestamp(Head(sorted)) <= getTimestamp(msg)
    THEN <<Head(sorted)>> \o insertByTimestamp(Tail(sorted), msg)
    ELSE <<msg>> \o sorted

RECURSIVE sortByTimestamp(_)
sortByTimestamp(messages) ==
    IF messages = <<>> THEN <<>>
    ELSE insertByTimestamp(sortByTimestamp(SubSeq(messages, 1, Len(messages) - 1)),
                           messages[Len(messages)])

isInternalMemo(message) == message.content = "memo"

\* the conversation block (lines 44-118)
migrateConversation(messages, boundary) ==
    IF Len(messages) > 0
    THEN LET uniqueMessages == sortByTimestamp(uniqueFrom(messages, 1, {}, boundary))
             realConversations == SelectSeq(uniqueMessages, LAMBDA m : ~isInternalMemo(m))
             migrated == IF Len(uniqueMessages) > MIN_MESSAGES_FOR_CLEANUP
                         THEN realConversations
                         ELSE uniqueMessages
         IN  [messages |-> migrated, needsMigration |-> Len(migrated) # Len(messages)]
    ELSE [messages |-> messages, needsMigration |-> FALSE]

\* generateProjectName(prefix, nanoid, 20): a name made of the prefix and
\* a fresh nanoid
generateProjectName == "app-one"

\* StateMigration.migrateIfNeeded(state, logger): needsMigration FALSE is
\* the answer null
migrateIfNeeded(st, boundary) ==
    LET conversation == migrateConversation(st.conversationMessages, boundary)
        needsMigration ==
            \/ st.file = "old"
            \/ conversation.needsMigration
            \/ st.userApiKeys
            \/ st.latestScreenshot
            \/ ~st.projectUpdatesAccumulator
            \/ st.templateDetails
            \/ st.projectName = ""
    IN  [needsMigration |-> needsMigration,
         state |-> [file |-> "new",
                    conversationMessages |-> conversation.messages,
                    userApiKeys |-> FALSE,
                    latestScreenshot |-> FALSE,
                    projectUpdatesAccumulator |-> TRUE,
                    templateDetails |-> FALSE,
                    templateName |-> st.templateName,
                    projectName |-> IF st.projectName = "" THEN generateProjectName
                                    ELSE st.projectName]]

(***************************************************************************)
(* The conversation store                                                  *)
(***************************************************************************)
Ids(messages) == { messages[i].conversationId : i \in DOMAIN messages }

RECURSIVE deduplicateFrom(_, _)
\* the filter of deduplicateMessages with its set `seen`
deduplicateFrom(messages, seen) ==
    IF messages = <<>> THEN <<>>
    ELSE IF Head(messages).conversationId \in seen
    THEN deduplicateFrom(Tail(messages), seen)
    ELSE <<Head(messages)>> \o
         deduplicateFrom(Tail(messages), seen \cup {Head(messages).conversationId})

deduplicateMessages_Identity(messages) == messages

\* deduplicateMessages (lines 503-513)
deduplicateMessages(messages) == deduplicateFrom(messages, {})

\* getConversationState(): each history is the stored list, or
\* state.conversationMessages when the stored list is empty, deduplicated
getConversationState(st, full, compact) ==
    LET currentConversation == st.conversationMessages
        fullHistory == IF Len(full) = 0 THEN currentConversation ELSE full
        runningHistory == IF Len(compact) = 0 THEN currentConversation ELSE compact
    IN  [runningHistory |-> deduplicateMessages(runningHistory),
         fullHistory |-> deduplicateMessages(fullHistory)]

\* the two branches of addConversationMessage for one history (lines
\* 539-558): push, or replacement of the message that has the same id
Upsert(history, message) ==
    IF ~(\E i \in DOMAIN history :
            history[i].conversationId = message.conversationId)
    THEN Append(history, message)
    ELSE [i \in DOMAIN history |->
            IF history[i].conversationId = message.conversationId
            THEN message ELSE history[i]]

\* setConversationState(conversations): both rows are replaced
setConversationState(conversations) ==
    /\ compact_conversations' = conversations.runningHistory
    /\ full_conversations' = conversations.fullHistory

\* addConversationMessage(message)
addConversationMessage(message) ==
    LET conversationState ==
            getConversationState(state, full_conversations, compact_conversations)
    IN  setConversationState(
            [runningHistory |-> Upsert(conversationState.runningHistory, message),
             fullHistory |-> Upsert(conversationState.fullHistory, message)])

\* what processUserMessage returns for the state it was given: the
\* histories with the messages of the turn appended
processUserMessage(conversationState, message) ==
    [runningHistory |-> Append(conversationState.runningHistory, message),
     fullHistory |-> Append(conversationState.fullHistory, message)]

\* the ids IdGenerator.generateConversationId() has not given out yet
FreshIds ==
    { id \in TurnMessageIds :
        /\ id \notin Ids(full_conversations) \cup Ids(compact_conversations)
        /\ id \notin Ids(state.conversationMessages)
        /\ \A t \in TurnIds :
             id \notin Ids(turns[t].conversationState.fullHistory)
                        \cup Ids(turns[t].conversationState.runningHistory) }

(***************************************************************************)
(* Init: the agent after initialize(); the template cache is empty when    *)
(* the object was rebuilt without the full onStart                         *)
(***************************************************************************)
Init ==
    /\ state = [generatedPhases |-> <<>>,
                generatedFilesMap |-> {},
                phasesCounter |-> MAX_PHASES,
                pendingUserInputs |-> <<>>,
                mvpGenerated |-> FALSE,
                reviewingInitiated |-> FALSE,
                currentPhase |-> NoPhase,
                reviewCycles |-> 0,
                lastDeepDebugTranscript |-> 0,
                conversationMessages |-> <<>>,
                blueprint |-> NewBlueprint,
                projectName |-> InitialName,
                sandboxInstanceId |-> FALSE]
    /\ gitHead = {}
    /\ templateDetailsCache \in BOOLEAN
    /\ generationPromise = "null"
    /\ currentAbortController = "undefined"
    /\ deepDebugPromise = "null"
    /\ runs = [r \in RunIds |-> FreeRun]
    /\ dbg = [d \in DebugIds |-> FreeDebug]
    /\ genWaiters = {}
    /\ sent = {}
    /\ finalizationImpls = 0
    /\ lastOp = "none"
    /\ turns = [t \in TurnIds |-> NoTurn]
    /\ full_conversations = <<>>
    /\ compact_conversations = <<>>
    /\ fileStore = NewFileStore
    /\ persisted = NewPersisted
    /\ registry = NewRegistry
    /\ projectCall = NoProjectCall
    /\ debugger = NewDebugger
    /\ phaseImpl = NoPhaseImpl
    /\ chat = NoChat
    /\ commandRun = NoCommandRun
    /\ gitTool = NoGitTool

(***************************************************************************)
(* launchStateMachine: entering a state runs the handler's code up to its  *)
(* first await.  Each operator yields the agent state, the activation, the *)
(* messages broadcast, and whether the finally block has reset the abort   *)
(* controller.                                                             *)
(***************************************************************************)

\* leaving the while loop, or the catch block, leads to the finally block:
\* clearAbortController(), then await appService.updateApp(...)
EnterFinally(st, run, s) ==
    [state |-> st,
     run |-> [run EXCEPT !.currentDevState = "IDLE", !.pc = "registry",
                         !.sig = "none"],
     sent |-> s,
     clear |-> TRUE]

\* catch (error) of launchStateMachine
CatchAtRunBoundary(st, run, s, error) ==
    IF error = "RateLimitExceeded"
    THEN EnterFinally(st, [run EXCEPT !.raised = error], broadcast(s, "rate_limit_error"))
    ELSE EnterFinally(st, [run EXCEPT !.raised = error], broadcast(s, "error"))

\* executeReviewCycle up to await fetchAllIssues(false)
EnterReviewing(st, run, s) ==
    IF st.reviewingInitiated
    THEN EnterFinally(st, run, s)
    ELSE [state |-> [st EXCEPT !.reviewingInitiated = TRUE],
          run |-> [run EXCEPT !.currentDevState = "REVIEWING", !.pc = "rev_issues",
                              !.sig = "none"],
          sent |-> s,
          clear |-> FALSE]

\* executeFinalizing up to await fetchAllIssues(true)
EnterFinalizing(st, run, s) ==
    IF st.mvpGenerated
    THEN EnterReviewing(st, run, s)
    ELSE [state |-> createNewIncompletePhase([st EXCEPT !.mvpGenerated = TRUE],
                                             FinalizationPhase),
          run |-> [run EXCEPT !.currentDevState = "FINALIZING", !.pc = "fin_issues",
                              !.phaseConcept = FinalizationPhase, !.sig = "none"],
          sent |-> s,
          clear |-> FALSE]

\* executePhaseGeneration up to await fetchAllIssues()
EnterPhaseGenerating(st, run, s) ==
    [state |-> st,
     run |-> [run EXCEPT !.currentDevState = "PHASE_GENERATING", !.pc = "gen_issues",
                         !.sig = "none"],
     sent |-> s,
     clear |-> FALSE]

\* executePhaseImplementation up to the await that fetches the issues; the
\* phase concept is always defined here (the loop is entered with one, and
\* executePhaseGeneration returns PHASE_IMPLEMENTING only with a result)
EnterPhaseImplementing(st, run, s, phaseConcept, userContext) ==
    [state |-> [st EXCEPT !.currentPhase = NoPhase],
     run |-> [run EXCEPT !.currentDevState = "PHASE_IMPLEMENTING", !.pc = "impl_issues",
                         !.phaseConcept = phaseConcept, !.userContext = userContext,
                         !.sig = "none"],
     sent |-> s,
     clear |-> FALSE]

\* the switch of the while loop
EnterState(st, run, s, dev, phaseConcept, userContext) ==
    CASE dev = "PHASE_GENERATING" -> EnterPhaseGenerating(st, run, s)
      [] dev = "PHASE_IMPLEMENTING" -> EnterPhaseImplementing(st, run, s, phaseConcept, userContext)
      [] dev = "FINALIZING" -> EnterFinalizing(st, run, s)
      [] dev = "REVIEWING" -> EnterReviewing(st, run, s)
      [] OTHER -> EnterFinally(st, run, s)

SelectStart_PhasesFirst(st, run, s, reviewCycles) ==
    LET generatedPhases == st.generatedPhases
        incompletedPhases == Incomplete(generatedPhases)
        st1 == [st EXCEPT !.reviewCycles = reviewCycles]
    IN  IF Len(generatedPhases) > 0
        THEN EnterState(st1, [run EXCEPT !.firstState = "PHASE_GENERATING"], s,
                        "PHASE_GENERATING", NoPhase, <<>>)
        ELSE IF Len(incompletedPhases) > 0
        THEN EnterState(st1, [run EXCEPT !.firstState = "PHASE_IMPLEMENTING"], s,
                        "PHASE_IMPLEMENTING",
                        Concept(incompletedPhases[Len(incompletedPhases)]), <<>>)
        ELSE EnterState(createNewIncompletePhase(st1, InitialPhase),
                        [run EXCEPT !.firstState = "PHASE_IMPLEMENTING"], s,
                        "PHASE_IMPLEMENTING", InitialPhase, <<>>)

\* lines 818-847 of launchStateMachine: the state the run starts in
SelectStart(st, run, s, reviewCycles) ==
    LET generatedPhases == st.generatedPhases
        incompletedPhases == Incomplete(generatedPhases)
        st1 == [st EXCEPT !.reviewCycles = reviewCycles]
    IN  IF Len(incompletedPhases) > 0
        THEN EnterState(st1, [run EXCEPT !.firstState = "PHASE_IMPLEMENTING"], s,
                        "PHASE_IMPLEMENTING",
                        Concept(incompletedPhases[Len(incompletedPhases)]), <<>>)
        ELSE IF Len(generatedPhases) > 0
        THEN EnterState(st1, [run EXCEPT !.firstState = "PHASE_GENERATING"], s,
                        "PHASE_GENERATING", NoPhase, <<>>)
        ELSE EnterState(createNewIncompletePhase(st1, InitialPhase),
                        [run EXCEPT !.firstState = "PHASE_IMPLEMENTING"], s,
                        "PHASE_IMPLEMENTING", InitialPhase, <<>>)

\* commit the outcome e of a step of activation r
Commit(r, e) ==
    /\ state' = e.state
    /\ sent' = e.sent
    /\ runs' = IF e.clear
               THEN Detach([runs EXCEPT ![r] = e.run])
               ELSE [runs EXCEPT ![r] = e.run]
    /\ dbg' = IF e.clear THEN DetachDebug(dbg) ELSE dbg
    /\ currentAbortController' =
            IF e.clear THEN "undefined" ELSE currentAbortController

FirstFree(S, f) == CHOOSE i \in S : f[i].pc = "free" /\ \A j \in S : f[j].pc = "free" => i <= j

(***************************************************************************)
(* generateAllFiles(reviewCycles = 5)                                      *)
(***************************************************************************)

\* an early return of generateAllFiles (lines 796-803): only a log line
ReturnWithoutRun(how) ==
    /\ lastOp' = how
    /\ UNCHANGED <<state, gitHead, templateDetailsCache, generationPromise,
                   currentAbortController, deepDebugPromise, runs, dbg,
                   genWaiters, sent, finalizationImpls>>

\* this.generationPromise = this.launchStateMachine(reviewCycles) (line 804):
\* launchStateMachine runs up to its first await on external work, which is
\* ensureTemplateDetails() when the template is not loaded yet; the caller
\* is then suspended at line 805
LaunchRun ==
    /\ \E r \in RunIds : runs[r].pc = "free"
    /\ LET r == FirstFree(RunIds, runs)
           s == {"generation_started"}
       IN  IF templateDetailsCache
           THEN Commit(r, SelectStart(state, FreeRun, s, 5))
           ELSE /\ runs' = [runs EXCEPT ![r] = [FreeRun EXCEPT !.pc = "template"]]
                /\ sent' = s
                /\ UNCHANGED <<state, dbg, currentAbortController>>
    /\ generationPromise' = "pending"
    /\ genWaiters' = genWaiters \cup {"launch"}
    /\ lastOp' = "launch"
    /\ UNCHANGED <<gitHead, templateDetailsCache, deepDebugPromise, finalizationImpls>>

ReentryKind == IF ActiveRuns # {} THEN "reentry_during_run" ELSE "reentry_no_run"

generateAllFiles_NoInProgressCheck ==
    /\ IF state.mvpGenerated /\ Len(state.pendingUserInputs) = 0
       THEN ReturnWithoutRun("noop")
       ELSE LaunchRun
    /\ UNCHANGED <<turns, convVars>>
    /\ UNCHANGED componentVars

generateAllFiles_AwaitsRunning ==
    /\ IF state.mvpGenerated /\ Len(state.pendingUserInputs) = 0
       THEN ReturnWithoutRun("noop")
       ELSE IF isCodeGenerating
       THEN IF generationPromise = "pending"
            THEN /\ genWaiters' = genWaiters \cup {"reentry"}
                 /\ UNCHANGED <<state, gitHead, templateDetailsCache, generationPromise,
                                currentAbortController, deepDebugPromise, runs, dbg,
                                sent, finalizationImpls, lastOp>>
            ELSE ReturnWithoutRun("rejected")
       ELSE LaunchRun
    /\ UNCHANGED <<turns, convVars>>
    /\ UNCHANGED componentVars

generateAllFiles_NoCompletedCheck ==
    /\ IF isCodeGenerating
       THEN ReturnWithoutRun(ReentryKind)
       ELSE LaunchRun
    /\ UNCHANGED <<turns, convVars>>
    /\ UNCHANGED componentVars

\* generateAllFiles, called for the client's generate_all message
generateAllFiles ==
    /\ IF state.mvpGenerated /\ Len(state.pendingUserInputs) = 0
       THEN ReturnWithoutRun("noop")
       ELSE IF isCodeGenerating
       THEN ReturnWithoutRun(ReentryKind)
       ELSE LaunchRun
    /\ UNCHANGED <<turns, convVars>>
    /\ UNCHANGED componentVars

\* handleUserInput awaits ensureTemplateDetails() before anything else
\* (line 2429); onStart does the same (line 350)
EnsureTemplateDetails ==
    /\ ~templateDetailsCache
    /\ templateDetailsCache' = TRUE
    /\ UNCHANGED <<state, gitHead, generationPromise, currentAbortController,
                   deepDebugPromise, runs, dbg, genWaiters, sent, finalizationImpls,
                   lastOp,
                   turns, convVars>>
    /\ UNCHANGED componentVars

\* the callers suspended at `await this.generationPromise` resume when the
\* promise settles
ResumeWaiters(how) ==
    /\ genWaiters' = {}
    /\ turns' = [t \in TurnIds |->
                    IF turns[t].pc = "wait_gen"
                    THEN [turns[t] EXCEPT !.pc = "ready", !.waited = TRUE]
                    ELSE turns[t]]
    /\ lastOp' = IF "reentry" \in genWaiters THEN "reentry_after_exit"
                 ELSE IF genWaiters # {} THEN how
                 ELSE lastOp

(***************************************************************************)
(* Steps of launchStateMachine                                             *)
(***************************************************************************)

\* await this.ensureTemplateDetails() (line 816) settles; it is outside the
\* try block, so a failure rejects the promise of launchStateMachine
RunTemplate(r) ==
    /\ runs[r].pc = "template"
    /\ \/ /\ templateDetailsCache' = TRUE
          /\ Commit(r, SelectStart(state, runs[r], sent, 5))
          /\ UNCHANGED <<generationPromise, genWaiters, lastOp, turns>>
       \/ /\ runs' = [runs EXCEPT ![r] = FreeRun]
          /\ generationPromise' = "rejected"
          /\ ResumeWaiters("rejected")
          /\ UNCHANGED <<state, sent, dbg, currentAbortController, templateDetailsCache>>
    /\ UNCHANGED <<gitHead, deepDebugPromise, finalizationImpls, convVars>>
    /\ UNCHANGED componentVars

\* getOperationOptions() -> getInferenceContext() -> getOrCreateAbortController():
\* the operation started by activation r holds the current controller's signal
StartOperation(r, e, pc, op) ==
    /\ state' = e.state
    /\ sent' = e.sent
    /\ runs' = [runs EXCEPT ![r] =
                  [e.run EXCEPT !.pc = pc, !.sig = "current",
                                !.firstOp = IF @ = "none" THEN op ELSE @,
                                !.opAfterStop = @ \/ e.run.stopped]]
    /\ currentAbortController' = "live"
    /\ UNCHANGED dbg

\* executePhaseGeneration: fetchAllIssues() settles (line 912); on success
\* the pending requests are taken and generateNextPhase starts PlanNextPhase
RunGenIssues(r) ==
    /\ runs[r].pc = "gen_issues"
    /\ \/ StartOperation(r,
             [state |-> fetchPendingUserRequests(state),
              run |-> [runs[r] EXCEPT !.userContext = state.pendingUserInputs],
              sent |-> broadcast(sent, "phase_generating")],
             "plan", "PlanNextPhase")
       \/ Commit(r, EnterFinally(state, [runs[r] EXCEPT !.raised = "Error"],
                                  broadcast(sent, "error")))
    /\ UNCHANGED <<gitHead, templateDetailsCache, generationPromise, deepDebugPromise,
                   genWaiters, finalizationImpls, lastOp,
                   turns, convVars>>
    /\ UNCHANGED componentVars

\* generateNextPhase after PlanNextPhase returned result (lines 1188-1217)
\* and the rest of executePhaseGeneration (lines 942-960)
PlanReturned(r, result) ==
    LET toDelete == result.del
        st1 == IF toDelete # {} THEN FileManager_deleteFiles(state, toDelete) ELSE state
        s1 == broadcast(sent, "phase_generated")
    IN  IF result.files = {}
        THEN EnterState(st1, runs[r], s1, "FINALIZING", NoPhase, <<>>)
        ELSE EnterState([createNewIncompletePhase(st1, result) EXCEPT
                            !.currentPhase = Concept(result)],
                        runs[r], s1, "PHASE_IMPLEMENTING", Concept(result),
                        runs[r].userContext)

\* catch of executePhaseGeneration (lines 961-969)
PlanFailed(r, error) ==
    IF error = "RateLimitExceeded"
    THEN CatchAtRunBoundary(state, runs[r], sent, error)
    ELSE EnterFinally(state, [runs[r] EXCEPT !.raised = error], broadcast(sent, "error"))

\* PlanNextPhase settles
RunPlanDone(r) ==
    /\ runs[r].pc = "plan"
    /\ IF runs[r].sig = "aborted"
       THEN Commit(r, PlanFailed(r, "Aborted"))
       ELSE \/ \E result \in PlanResults :
                 /\ result.files # {} => PhasesAdded(state.generatedPhases) < MaxPhases
                 /\ Commit(r, PlanReturned(r, result))
            \/ \E error \in {"RateLimitExceeded", "Error"} :
                 Commit(r, PlanFailed(r, error))
    /\ UNCHANGED <<gitHead, templateDetailsCache, generationPromise, deepDebugPromise,
                   genWaiters, finalizationImpls, lastOp,
                   turns, convVars>>
    /\ UNCHANGED componentVars

\* an error inside implementPhase, or before it, as seen by the state that
\* called it: executePhaseImplementation swallows it (lines 1023-1029),
\* executeFinalizing has no catch
ImplFailed(r, error) ==
    IF runs[r].currentDevState = "PHASE_IMPLEMENTING" /\ error # "RateLimitExceeded"
    THEN EnterFinally(state, [runs[r] EXCEPT !.raised = error], sent)
    ELSE CatchAtRunBoundary(state, runs[r], sent, error)

\* the fetch of the issues settles in executePhaseImplementation (lines
\* 997-1013) or executeFinalizing (line 1093); implementPhase then
\* broadcasts phase_implementing and starts ImplementPhase
RunImplIssues(r) ==
    /\ runs[r].pc \in {"impl_issues", "fin_issues"}
    /\ \/ /\ StartOperation(r,
                [state |-> state, run |-> runs[r],
                 sent |-> broadcast(sent, "phase_implementing")],
                "impl", runs[r].phaseConcept.name)
          /\ finalizationImpls' =
                IF runs[r].phaseConcept.name = FINALIZATION
                THEN (IF finalizationImpls < 2 THEN finalizationImpls + 1 ELSE 2)
                ELSE finalizationImpls
       \/ /\ Commit(r, ImplFailed(r, "Error"))
          /\ UNCHANGED finalizationImpls
    /\ UNCHANGED <<gitHead, templateDetailsCache, generationPromise, deepDebugPromise,
                   genWaiters, lastOp,
                   turns, convVars>>
    /\ UNCHANGED componentVars

ImplFinished_IgnoresPending(r, st, s) ==
    LET phaseConcept == runs[r].phaseConcept
        s1 == broadcast(broadcast(s, "phase_validated"), "phase_implemented")
        st1 == markPhaseComplete(st, phaseConcept.name)
        st2 == decrementPhasesCounter(st1)
    IN  IF runs[r].currentDevState = "FINALIZING"
        THEN EnterState(st1, runs[r], s1, "REVIEWING", NoPhase, <<>>)
        ELSE IF phaseConcept.lastPhase \/ st2.phasesCounter <= 0
        THEN EnterState(st2, runs[r], s1, "FINALIZING", NoPhase, <<>>)
        ELSE EnterState(st2, runs[r], s1, "PHASE_GENERATING", NoPhase, <<>>)

\* the end of implementPhase (lines 1311-1335) and what the calling state
\* does next (lines 1017-1022, or 1098-1102 in executeFinalizing)
ImplFinished(r, st, s) ==
    LET phaseConcept == runs[r].phaseConcept
        s1 == broadcast(broadcast(s, "phase_validated"), "phase_implemented")
        st1 == markPhaseComplete(st, phaseConcept.name)
        st2 == decrementPhasesCounter(st1)
        phasesCounter == st2.phasesCounter
    IN  IF runs[r].currentDevState = "FINALIZING"
        THEN EnterState(st1, runs[r], s1, "REVIEWING", NoPhase, <<>>)
        ELSE IF (phaseConcept.lastPhase \/ phasesCounter <= 0)
                /\ Len(st2.pendingUserInputs) = 0
        THEN EnterState(st2, runs[r], s1, "FINALIZING", NoPhase, <<>>)
        ELSE EnterState(st2, runs[r], s1, "PHASE_GENERATING", NoPhase, <<>>)

\* ImplementPhase settles: phase_validating, the files that came out of the
\* fixer promises are saved (line 1290) and, when there are any, deployed
RunImplDone(r) ==
    /\ runs[r].pc = "impl"
    /\ IF runs[r].sig = "aborted"
       THEN /\ Commit(r, ImplFailed(r, "Aborted"))
            /\ UNCHANGED gitHead
       ELSE \/ \E finalFiles \in SUBSET Paths :
               \E changed \in ChangedChoices(state, finalFiles) :
                 LET saved == saveGeneratedFiles(state, gitHead, finalFiles, changed)
                     s1 == broadcast(sent, "phase_validating")
                 IN  /\ gitHead' = saved.head
                     /\ IF finalFiles # {}
                        THEN Commit(r, [state |-> saved.state,
                                        run |-> [runs[r] EXCEPT !.pc = "deploy", !.sig = "none"],
                                        sent |-> s1, clear |-> FALSE])
                        ELSE Commit(r, ImplFinished(r, saved.state, s1))
            \/ \E error \in {"RateLimitExceeded", "Error"} :
                 /\ Commit(r, ImplFailed(r, error))
                 /\ UNCHANGED gitHead
    /\ UNCHANGED <<templateDetailsCache, generationPromise, deepDebugPromise,
                   genWaiters, finalizationImpls, lastOp,
                   turns, convVars>>
    /\ UNCHANGED componentVars

\* deployToSandbox and the post-phase fixes settle (lines 1301-1309)
RunDeployDone(r) ==
    /\ runs[r].pc = "deploy"
    /\ \/ Commit(r, ImplFinished(r, state, sent))
       \/ Commit(r, ImplFailed(r, "Error"))
    /\ UNCHANGED <<gitHead, templateDetailsCache, generationPromise, deepDebugPromise,
                   genWaiters, finalizationImpls, lastOp,
                   turns, convVars>>
    /\ UNCHANGED componentVars

\* executeReviewCycle: fetchAllIssues(false) settles (line 1047)
RunReviewIssues(r) ==
    /\ runs[r].pc = "rev_issues"
    /\ \/ \E issuesFound \in BOOLEAN :
            /\ Commit(r, EnterFinally(state, runs[r],
                          IF issuesFound THEN broadcast(sent, "conversation_response")
                          ELSE sent))
            /\ IF issuesFound
               THEN addConversationMessage(
                        [conversationId |-> REVIEW_ID, content |-> "new"])
               ELSE UNCHANGED convVars
       \/ /\ Commit(r, CatchAtRunBoundary(state, runs[r], sent, "Error"))
          /\ UNCHANGED convVars
    /\ UNCHANGED <<gitHead, templateDetailsCache, generationPromise, deepDebugPromise,
                   genWaiters, finalizationImpls, lastOp, turns>>
    /\ UNCHANGED componentVars

\* the finally block after await appService.updateApp(...) (lines 892-902);
\* when the update throws, the rest of the block is skipped
RunRegistry(r) ==
    /\ runs[r].pc = "registry"
    /\ \/ /\ generationPromise' = "null"
          /\ sent' = broadcast(sent, "generation_complete")
          /\ ResumeWaiters("completed")
       \/ /\ generationPromise' = "rejected"
          /\ sent' = sent
          /\ ResumeWaiters("rejected")
    /\ runs' = [runs EXCEPT ![r] = FreeRun]
    /\ UNCHANGED <<state, gitHead, templateDetailsCache, currentAbortController,
                   deepDebugPromise, dbg, finalizationImpls, convVars>>
    /\ UNCHANGED componentVars

(***************************************************************************)
(* Calls of the agent API that arrive while the above is in progress       *)
(***************************************************************************)

\* queueUserRequest(request)
queueUserRequest(request) ==
    /\ Len(state.pendingUserInputs) < MaxPending
    /\ state' = [rechargePhasesCounter(state, QUEUE_RECHARGE) EXCEPT
                    !.pendingUserInputs = Append(state.pendingUserInputs, request)]
    /\ UNCHANGED <<gitHead, templateDetailsCache, generationPromise,
                   currentAbortController, deepDebugPromise, runs, dbg, genWaiters,
                   sent, finalizationImpls, lastOp,
                   turns, convVars>>
    /\ UNCHANGED componentVars

QueueUserRequest == \E request \in Requests : queueUserRequest(request)

\* the texts of the requests of users who ask for different things
DistinctRequests == {"r1", "r2"}

\* queueUserRequest(request) (lines 766-778) with a text that is not pending
QueueDistinctRequest ==
    /\ Len(state.pendingUserInputs) < MaxQueue
    /\ \E request \in DistinctRequests :
         /\ \A i \in 1..Len(state.pendingUserInputs) :
               state.pendingUserInputs[i] # request
         /\ state' = [rechargePhasesCounter(state, QUEUE_RECHARGE) EXCEPT
                         !.pendingUserInputs = Append(state.pendingUserInputs, request)]
    /\ UNCHANGED <<gitHead, templateDetailsCache, generationPromise,
                   currentAbortController, deepDebugPromise, runs, dbg, genWaiters,
                   sent, finalizationImpls, lastOp,
                   turns, convVars>>
    /\ UNCHANGED componentVars

\* cancelCurrentInference(): abort() on the current controller, if any, and
\* reset of the field
cancelCurrentInference ==
    IF currentAbortController = "live"
    THEN /\ runs' = [r \in RunIds |->
                        [Abort(runs)[r] EXCEPT !.stopped = @ \/ runs[r].pc # "free"]]
         /\ dbg' = AbortDebug(dbg)
         /\ currentAbortController' = "undefined"
    ELSE /\ runs' = [r \in RunIds |->
                        [runs[r] EXCEPT !.stopped = @ \/ runs[r].pc # "free"]]
         /\ UNCHANGED <<dbg, currentAbortController>>

\* stopGeneration(): cancels the current inference and broadcasts
\* generation_stopped
StopGeneration ==
    /\ cancelCurrentInference
    /\ sent' = broadcast(sent, "generation_stopped")
    /\ lastOp' = IF ActiveRuns # {} THEN "stop_during_run" ELSE "stop_idle"
    /\ UNCHANGED <<state, gitHead, templateDetailsCache, generationPromise,
                   deepDebugPromise, genWaiters, finalizationImpls,
                   turns, convVars>>
    /\ UNCHANGED componentVars

(***************************************************************************)
(* Deep debug: the deep_debug tool and executeDeepDebug                    *)
(***************************************************************************)
GenerateFilesNames == {"Fix", "Core"}

deep_debug_NoDebugCheck(callCount) ==
    IF callCount > 0 THEN "CALL_LIMIT_EXCEEDED"
    ELSE IF isCodeGenerating THEN "GENERATION_IN_PROGRESS"
    ELSE "executeDeepDebug"

deep_debug_NoCallLimit(callCount) ==
    IF isCodeGenerating THEN "GENERATION_IN_PROGRESS"
    ELSE IF isDeepDebugging THEN "DEBUG_IN_PROGRESS"
    ELSE "executeDeepDebug"

\* the checks of the deep_debug tool (deep-debugger.ts lines 35-59) for a
\* tool instance whose counter is callCount: the error tag returned, or
\* "executeDeepDebug" when line 62 is reached
deep_debug(callCount) ==
    IF callCount > 0 THEN "CALL_LIMIT_EXCEEDED"
    ELSE IF isCodeGenerating THEN "GENERATION_IN_PROGRESS"
    ELSE IF isDeepDebugging THEN "DEBUG_IN_PROGRESS"
    ELSE "executeDeepDebug"

\* the synchronous start of executeDeepDebug (lines 1112-1122, 1153): the
\* previous transcript is read, the operation options take the current
\* abort controller, fetchRuntimeErrors(true) is awaited and the promise of
\* the session is stored
executeDeepDebug ==
    /\ \E d \in DebugIds : dbg[d].pc = "free"
    /\ dbg' = [dbg EXCEPT ![FirstFree(DebugIds, dbg)] =
                  [FreeDebug EXCEPT !.pc = "errors", !.sig = "current",
                      !.previousTranscript = state.lastDeepDebugTranscript]]
    /\ currentAbortController' = "live"
    /\ deepDebugPromise' = "pending"

\* executeDeepDebug when the code before the first await throws (lines
\* 1113-1120, for instance focusPaths.some for a focus_paths argument that
\* is no array): catch and finally run at once, finally sets
\* deepDebugPromise to null, and line 1153 then stores the settled promise
executeDeepDebug_Throws ==
    /\ currentAbortController' = "live"
    /\ deepDebugPromise' = "settled"
    /\ UNCHANGED dbg

\* the deep_debug tool called once in a turn of its own; the tool runs
\* inside handleUserInput, after ensureTemplateDetails() has succeeded
DeepDebugTool ==
    /\ templateDetailsCache
    /\ IF deep_debug(0) = "executeDeepDebug"
       THEN executeDeepDebug \/ executeDeepDebug_Throws
       ELSE UNCHANGED <<dbg, deepDebugPromise, currentAbortController>>
    /\ UNCHANGED <<state, gitHead, templateDetailsCache, generationPromise, runs,
                   genWaiters, sent, finalizationImpls, lastOp, turns, convVars>>
    /\ UNCHANGED componentVars

\* finally of executeDeepDebug (lines 1146-1149); the tool call that awaits
\* the session gets its result (deep-debugger.ts lines 62-69) and the
\* callers of waitForDeepDebug resume (lines 1913-1925)
DebugFinally(d, out) ==
    /\ dbg' = [dbg EXCEPT ![d] = FreeDebug]
    /\ deepDebugPromise' = "null"
    /\ turns' = [t \in TurnIds |->
                    IF turns[t].pc = "debug" /\ turns[t].session = d
                    THEN [turns[t] EXCEPT !.pc = "ready", !.session = 0,
                            !.result = IF out = 0 THEN "error" ELSE "transcript",
                            !.transcript = out]
                    ELSE IF turns[t].pc = "wait_dbg" /\ turns[t].session = d
                    THEN [turns[t] EXCEPT !.pc = "ready", !.session = 0]
                    ELSE turns[t]]

\* await this.fetchRuntimeErrors(true) settles (line 1122); dbg.run starts
DebugErrorsFetched(d) ==
    /\ dbg[d].pc = "errors"
    /\ \/ /\ dbg' = [dbg EXCEPT ![d].pc = "run"]
          /\ UNCHANGED <<deepDebugPromise, turns>>
       \/ DebugFinally(d, 0)
    /\ UNCHANGED <<state, gitHead, templateDetailsCache, generationPromise,
                   currentAbortController, runs, genWaiters, sent, finalizationImpls,
                   lastOp, convVars>>
    /\ UNCHANGED componentVars

\* the session calls its generate_files tool: generateFiles() builds a phase
\* concept and calls implementPhase, which broadcasts phase_implementing and
\* starts ImplementPhase (lines 1753-1788, 1224-1271)
DebugGenerateFiles(d) ==
    /\ dbg[d].pc = "run"
    /\ dbg[d].sig # "aborted"
    /\ \E phaseName \in GenerateFilesNames :
         dbg' = [dbg EXCEPT ![d].pc = "gen", ![d].phaseName = phaseName,
                            ![d].toolSig = "current"]
    /\ currentAbortController' = "live"
    /\ sent' = broadcast(sent, "phase_implementing")
    /\ UNCHANGED <<state, gitHead, templateDetailsCache, generationPromise,
                   deepDebugPromise, runs, genWaiters, finalizationImpls, lastOp,
                   turns, convVars>>
    /\ UNCHANGED componentVars

\* the end of implementPhase for generateFiles (lines 1311-1335)
DebugImplFinished(d, st, s) ==
    /\ state' = markPhaseComplete(st, dbg[d].phaseName)
    /\ sent' = broadcast(broadcast(s, "phase_validated"), "phase_implemented")
    /\ dbg' = [dbg EXCEPT ![d].pc = "run", ![d].phaseName = "none",
                          ![d].toolSig = "none"]

\* ImplementPhase settles inside generateFiles; an error goes back to the
\* session as the tool's error result (generate-files.ts lines 96-103)
DebugGenerateDone(d) ==
    /\ dbg[d].pc = "gen"
    /\ IF dbg[d].toolSig = "aborted"
       THEN /\ dbg' = [dbg EXCEPT ![d].pc = "run", ![d].phaseName = "none",
                                  ![d].toolSig = "none"]
            /\ UNCHANGED <<state, gitHead, sent>>
       ELSE \/ \E finalFiles \in SUBSET Paths :
               \E changed \in ChangedChoices(state, finalFiles) :
                 LET saved == saveGeneratedFiles(state, gitHead, finalFiles, changed)
                     s1 == broadcast(sent, "phase_validating")
                 IN  /\ gitHead' = saved.head
                     /\ IF finalFiles # {}
                        THEN /\ state' = saved.state
                             /\ sent' = s1
                             /\ dbg' = [dbg EXCEPT ![d].pc = "gen_deploy",
                                                   ![d].toolSig = "none"]
                        ELSE DebugImplFinished(d, saved.state, s1)
            \/ /\ dbg' = [dbg EXCEPT ![d].pc = "run", ![d].phaseName = "none",
                                     ![d].toolSig = "none"]
               /\ UNCHANGED <<state, gitHead, sent>>
    /\ UNCHANGED <<templateDetailsCache, generationPromise, currentAbortController,
                   deepDebugPromise, runs, genWaiters, finalizationImpls, lastOp,
                   turns, convVars>>
    /\ UNCHANGED componentVars

\* deployToSandbox settles inside generateFiles (line 1302; no post-phase
\* fixes, postPhaseFixing = false)
DebugGenerateDeployed(d) ==
    /\ dbg[d].pc = "gen_deploy"
    /\ \/ DebugImplFinished(d, state, sent)
       \/ /\ dbg' = [dbg EXCEPT ![d].pc = "run", ![d].phaseName = "none"]
          /\ UNCHANGED <<state, sent>>
    /\ UNCHANGED <<gitHead, templateDetailsCache, generationPromise,
                   currentAbortController, deepDebugPromise, runs, genWaiters,
                   finalizationImpls, lastOp,
                   turns, convVars>>
    /\ UNCHANGED componentVars

saveTranscript_Dropped(st, out) == st

\* Save transcript for next session (lines 1137-1140)
saveTranscript(st, out) == [st EXCEPT !.lastDeepDebugTranscript = out]

\* dbg.run settles: on success the transcript is saved (lines 1136-1142),
\* on an error nothing is (lines 1143-1145); then the finally block clears
\* deepDebugPromise
DebugDone(d) ==
    /\ dbg[d].pc = "run"
    /\ \/ \E out \in Transcripts :
            /\ state' = saveTranscript(state, out)
            /\ DebugFinally(d, out)
       \/ /\ DebugFinally(d, 0)
          /\ UNCHANGED state
    /\ UNCHANGED <<gitHead, templateDetailsCache, generationPromise,
                   currentAbortController, runs, genWaiters, sent, finalizationImpls,
                   lastOp, convVars>>
    /\ UNCHANGED componentVars

(***************************************************************************)
(* handleUserInput: a conversation turn and the tools the assistant calls  *)
(***************************************************************************)

\* handleUserInput after ensureTemplateDetails() and fetchRuntimeErrors(false)
\* (lines 2432-2475): the conversation state is read, buildTools gives the
\* turn a deep_debug tool of its own, getOperationOptions() takes the abort
\* controller and the assistant's inference starts
TurnStart(t) ==
    /\ templateDetailsCache
    /\ turns[t].pc = "none"
    /\ \A u \in TurnIds : u < t => turns[u].pc # "none"
    /\ turns' = [turns EXCEPT ![t] =
                    [NoTurn EXCEPT !.pc = "ready",
                        !.conversationState =
                            getConversationState(state, full_conversations,
                                                 compact_conversations)]]
    /\ currentAbortController' = "live"
    /\ UNCHANGED <<state, gitHead, templateDetailsCache, generationPromise,
                   deepDebugPromise, runs, dbg, genWaiters, sent, finalizationImpls,
                   lastOp, convVars>>
    /\ UNCHANGED componentVars

\* the assistant calls deep_debug (deep-debugger.ts lines 33-70)
TurnDeepDebug(t) ==
    /\ turns[t].pc = "ready"
    /\ LET tag == deep_debug(turns[t].callCount)
           callCount == IF tag = "CALL_LIMIT_EXCEEDED"
                        THEN turns[t].callCount ELSE turns[t].callCount + 1
           called == [turns[t] EXCEPT !.callCount = callCount,
                                      !.calls = IF @ < 2 THEN @ + 1 ELSE 2,
                                      !.waited = FALSE]
       IN  IF tag = "executeDeepDebug"
           THEN \/ /\ executeDeepDebug
                   /\ turns' = [turns EXCEPT ![t] =
                                   [called EXCEPT !.pc = "debug", !.result = "none",
                                                  !.transcript = 0,
                                                  !.session = FirstFree(DebugIds, dbg)]]
                \/ /\ executeDeepDebug_Throws
                   /\ turns' = [turns EXCEPT ![t] =
                                   [called EXCEPT !.result = "error", !.transcript = 0]]
           ELSE /\ turns' = [turns EXCEPT ![t] =
                                [called EXCEPT !.result = tag, !.transcript = 0]]
                /\ UNCHANGED <<dbg, deepDebugPromise, currentAbortController>>
    /\ UNCHANGED <<state, gitHead, templateDetailsCache, generationPromise, runs,
                   genWaiters, sent, finalizationImpls, lastOp, convVars>>
    /\ UNCHANGED componentVars

\* the assistant calls wait_for_generation: waitForGeneration() awaits the
\* promise of the run when there is one; a rejected promise is caught
TurnWaitForGeneration(t) ==
    /\ turns[t].pc = "ready"
    /\ ~turns[t].waited
    /\ turns' = [turns EXCEPT ![t] =
                    IF generationPromise = "pending"
                    THEN [@ EXCEPT !.pc = "wait_gen"]
                    ELSE [@ EXCEPT !.waited = TRUE]]
    /\ UNCHANGED <<state, gitHead, templateDetailsCache, generationPromise,
                   currentAbortController, deepDebugPromise, runs, dbg, genWaiters,
                   sent, finalizationImpls, lastOp, convVars>>
    /\ UNCHANGED componentVars

\* the assistant calls wait_for_debug (wait-for-debug.ts lines 21-31):
\* waitForDeepDebug() awaits the promise of the running session; the await
\* of a promise that has settled already goes on to the finally block, which
\* clears deepDebugPromise (line 1923)
TurnWaitForDebug(t) ==
    /\ turns[t].pc = "ready"
    /\ isDeepDebugging
    /\ IF deepDebugPromise = "settled"
       THEN /\ deepDebugPromise' = "null"
            /\ UNCHANGED turns
       ELSE /\ \E d \in DebugIds : dbg[d].pc # "free"
            /\ turns' = [turns EXCEPT ![t] =
                            [@ EXCEPT !.pc = "wait_dbg",
                                      !.session = CHOOSE d \in DebugIds : dbg[d].pc # "free"]]
            /\ UNCHANGED deepDebugPromise
    /\ UNCHANGED <<state, gitHead, templateDetailsCache, generationPromise,
                   currentAbortController, runs, dbg, genWaiters,
                   sent, finalizationImpls, lastOp, convVars>>
    /\ UNCHANGED componentVars

\* processUserMessage settles (lines 2476-2500): the conversation state it
\* returns is saved and generateAllFiles() is called when no generation
\* promise is set; an error of the processor is broadcast
TurnEnd(t) ==
    /\ turns[t].pc = "ready"
    /\ turns' = [turns EXCEPT ![t] = NoTurn]
    /\ \/ /\ FreshIds # {}
          /\ \E id \in FreshIds :
               /\ \A other \in FreshIds : id <= other
               /\ setConversationState(
                      processUserMessage(turns[t].conversationState,
                          [conversationId |-> id, content |-> "new"]))
          /\ IF ~isCodeGenerating
             THEN IF state.mvpGenerated /\ Len(state.pendingUserInputs) = 0
                  THEN ReturnWithoutRun("noop")
                  ELSE LaunchRun
             ELSE UNCHANGED <<state, gitHead, templateDetailsCache, generationPromise,
                              currentAbortController, deepDebugPromise, runs, dbg,
                              genWaiters, sent, finalizationImpls, lastOp>>
       \/ \E type \in {"rate_limit_error", "error"} :
            /\ sent' = broadcast(sent, type)
            /\ UNCHANGED <<state, gitHead, templateDetailsCache, generationPromise,
                           currentAbortController, deepDebugPromise, runs, dbg,
                           genWaiters, finalizationImpls, lastOp, convVars>>
    /\ UNCHANGED componentVars

(***************************************************************************)
(* Calls on the conversation store                                         *)
(***************************************************************************)

\* addConversationMessage(message) called with any message
AddConversationMessage ==
    /\ \E message \in Messages : addConversationMessage(message)
    /\ lastOp' = "addConversationMessage"
    /\ UNCHANGED <<state, gitHead, templateDetailsCache, generationPromise,
                   currentAbortController, deepDebugPromise, runs, dbg, genWaiters,
                   sent, finalizationImpls, turns>>
    /\ UNCHANGED componentVars

\* clearConversation()
ClearConversation ==
    /\ state' = [state EXCEPT !.conversationMessages = <<>>]
    /\ sent' = broadcast(sent, "conversation_cleared")
    /\ lastOp' = "clearConversation"
    /\ UNCHANGED <<gitHead, templateDetailsCache, generationPromise,
                   currentAbortController, deepDebugPromise, runs, dbg, genWaiters,
                   finalizationImpls, turns, convVars>>
    /\ UNCHANGED componentVars

(***************************************************************************)
(* Calls of the file manager                                               *)
(***************************************************************************)

\* this.stateManager.setState({...state, generatedFilesMap}) and the
\* repository, as the file store fs gives them; state.generatedFilesMap and
\* gitHead are the paths of the files
StoreFiles(fs) ==
    /\ fileStore' = fs
    /\ state' = [state EXCEPT !.generatedFilesMap = DOMAIN fs.generatedFilesMap]
    /\ gitHead' = DOMAIN fs.head

\* await this.fileManager.saveGeneratedFiles(files, commitMessage); a commit
\* that changes files makes git call the callback registered at line 168,
\* which starts syncGeneratedFilesMapFromGit without awaiting it
SaveGeneratedFiles ==
    /\ \E hasMessage, gitOk \in BOOLEAN :
         LET fs == Store_saveGeneratedFiles(fileStore, fileStore.files,
                                            hasMessage, gitOk)
         IN  /\ fs.pendingSyncs <= MaxSyncs
             /\ StoreFiles(fs)
    /\ UNCHANGED <<runVars, persisted, registry, projectCall, debugger, phaseImpl,
                   chat,
                   commandRun,
                   gitTool>>

\* this.fileManager.deleteFiles(filePaths)
DeleteFiles ==
    /\ \E filePaths \in SUBSET StorePaths :
         /\ filePaths # {}
         /\ StoreFiles(Store_deleteFiles(fileStore, filePaths))
    /\ UNCHANGED <<runVars, persisted, registry, projectCall, debugger, phaseImpl,
                   chat,
                   commandRun,
                   gitTool>>

\* getAllFilesFromHead() answers a pending sync (line 182), or throws and
\* the map is kept (line 211)
SyncGeneratedFilesMapFromGit ==
    /\ fileStore.pendingSyncs > 0
    /\ \/ LET fs == Store_syncGeneratedFilesMapFromGit(fileStore)
              sameFiles ==
                  /\ DOMAIN fs.generatedFilesMap = DOMAIN fileStore.generatedFilesMap
                  /\ \A path \in DOMAIN fs.generatedFilesMap :
                        fs.generatedFilesMap[path].fileContents
                          = fileStore.generatedFilesMap[path].fileContents
          IN  StoreFiles([fs EXCEPT !.pendingSyncs = @ - 1,
                                    !.saved = IF sameFiles THEN @
                                              ELSE [NoSave EXCEPT !.seq = fileStore.saved.seq]])
       \/ StoreFiles([fileStore EXCEPT !.pendingSyncs = @ - 1, !.synced = FALSE])
    /\ UNCHANGED <<runVars, persisted, registry, projectCall, debugger, phaseImpl,
                   chat,
                   commandRun,
                   gitTool>>

(***************************************************************************)
(* Calls of updateProjectName (rename_project tool) and of updateBlueprint *)
(* (alter_blueprint tool, alter-blueprint.ts lines 47-51)                  *)
(***************************************************************************)
ProjectCall(op, newName, patch, call) ==
    /\ state' = call.state
    /\ registry' = call.registry
    /\ projectCall' = [op |-> op, newName |-> newName, patch |-> patch,
                       returned |-> call.returned,
                       sandboxCalled |-> call.sandboxCalled,
                       registryCalled |-> call.registryCalled,
                       events |-> call.events,
                       seq |-> 1 - projectCall.seq]
    /\ UNCHANGED <<gitHead, runVars, fileStore, persisted, debugger, phaseImpl,
                   chat,
                   commandRun,
                   gitTool>>

UpdateProjectName ==
    \E newName \in Names : \E sandboxOk, dbOk \in CallOutcomes :
        ProjectCall("updateProjectName", newName, <<>>,
                    updateProjectName(state, registry, newName, sandboxOk, dbOk))

UpdateBlueprint ==
    \E patch \in Patches : \E sandboxOk, dbOk \in CallOutcomes :
        ProjectCall("updateBlueprint", <<>>, patch,
                    updateBlueprint(state, registry, patch, sandboxOk, dbOk))

(***************************************************************************)
(* Tool calls of a deep debug session and the clock                        *)
(***************************************************************************)
DebugToolCall ==
    /\ debugger.calls < MaxCalls
    /\ \E toolName \in DebugToolNames : \E args \in DebugToolArgs :
         debugger' = wrappedImplementation(debugger, toolName, args)
    /\ UNCHANGED <<agentVars, fileStore, persisted, registry, projectCall, phaseImpl,
                   chat,
                   commandRun,
                   gitTool>>

DebuggerClock ==
    /\ debugger.now < MaxTicks * Tick
    /\ debugger' = [debugger EXCEPT !.now = @ + Tick]
    /\ UNCHANGED <<agentVars, fileStore, persisted, registry, projectCall, phaseImpl,
                   chat,
                   commandRun,
                   gitTool>>

(***************************************************************************)
(* implementPhase (lines 1224-1342), one await at a time, with the events  *)
(* it broadcasts                                                           *)
(***************************************************************************)
PhaseFiles == {"package.json", "src/App.tsx"}

\* this.broadcast(type, {..., filePath}) appended to the log of the call
Event(type, filePath) == [type |-> type, filePath |-> filePath]

emit(p, type, filePath) == [p EXCEPT !.events = Append(@, Event(type, filePath))]

PhaseStep(p) ==
    /\ phaseImpl' = p
    /\ UNCHANGED <<agentVars, fileStore, persisted, registry, projectCall, debugger,
                   chat,
                   commandRun,
                   gitTool>>

\* lines 1234-1241: phase_implementing, then the operation starts
ImplementPhase ==
    /\ phaseImpl.pc = "idle"
    /\ \E files \in SUBSET PhaseFiles :
         PhaseStep(emit([phaseImpl EXCEPT !.pc = "generating", !.files = files],
                        "phase_implementing", ""))

\* fileGeneratingCallback (lines 1246-1252)
FileGeneratingCallback ==
    /\ phaseImpl.pc = "generating"
    /\ phaseImpl.open = ""
    /\ \E filePath \in phaseImpl.files \ phaseImpl.closed :
         PhaseStep(emit([phaseImpl EXCEPT !.open = filePath, !.chunked = FALSE],
                        "file_generating", filePath))

\* fileChunkGeneratedCallback (lines 1255-1262)
FileChunkGeneratedCallback ==
    /\ phaseImpl.pc = "generating"
    /\ phaseImpl.open # ""
    /\ ~phaseImpl.chunked
    /\ PhaseStep(emit([phaseImpl EXCEPT !.chunked = TRUE],
                      "file_chunk_generated", phaseImpl.open))

\* fileClosedCallback (lines 1263-1268)
FileClosedCallback ==
    /\ phaseImpl.pc = "generating"
    /\ phaseImpl.open # ""
    /\ PhaseStep(emit([phaseImpl EXCEPT !.open = "", !.closed = @ \cup {phaseImpl.open}],
                      "file_generated", phaseImpl.open))

\* the operation settles (line 1241): it throws, or phase_validating is
\* broadcast (line 1273), the fixer promises settle and the files are saved
ImplementPhaseSettles ==
    /\ phaseImpl.pc = "generating"
    /\ phaseImpl.open = ""
    /\ \/ PhaseStep([phaseImpl EXCEPT !.pc = "failed"])
       \/ \E finalFiles \in SUBSET phaseImpl.closed : \E commands \in BOOLEAN :
            PhaseStep(emit([phaseImpl EXCEPT !.pc = "commands",
                                             !.finalFiles = finalFiles,
                                             !.commands = commands],
                           "phase_validating", ""))

\* lines 1295-1298 and executeCommands (lines 2059-2187): with a sandbox
\* instance and a command that ran, saveExecutedCommands is called and not
\* awaited (line 2186); it syncs package.json after an install command
ExecuteCommands ==
    /\ phaseImpl.pc = "commands"
    /\ \E successful \in BOOLEAN :
         PhaseStep([phaseImpl EXCEPT
                      !.pc = IF phaseImpl.finalFiles # {} THEN "deploy" ELSE "finish",
                      !.packageSyncs =
                          IF phaseImpl.commands /\ state.sandboxInstanceId /\ successful
                          THEN 1 ELSE @])

\* syncPackageJsonFromSandbox (lines 2193-2238) of a saveExecutedCommands
\* call: file_generated when package.json has changed
SyncPackageJsonFromSandbox ==
    /\ phaseImpl.packageSyncs > 0
    /\ \E updated \in BOOLEAN :
         LET p == [phaseImpl EXCEPT !.packageSyncs = 0]
         IN  PhaseStep(IF updated THEN emit(p, "file_generated", "package.json") ELSE p)

\* deployToSandbox (lines 1800-1825), called at line 1302: onStarted
DeploymentStarted ==
    /\ phaseImpl.pc = "deploy"
    /\ PhaseStep(emit([phaseImpl EXCEPT !.pc = "deploying"], "deployment_started", ""))

\* onAfterSetupCommands syncs package.json, then onCompleted or onError
DeploymentSettles ==
    /\ phaseImpl.pc = "deploying"
    /\ \E updated \in BOOLEAN : \E type \in {"deployment_completed", "deployment_failed"} :
         LET p == [phaseImpl EXCEPT !.pc = "fixes"]
             synced == IF updated THEN emit(p, "file_generated", "package.json") ELSE p
         IN  PhaseStep(emit(synced, type, ""))

\* applyDeterministicCodeFixes and applyFastSmartCodeFixes (lines
\* 1303-1308): nothing to fix, or fixed files saved and deployed again
PostPhaseFixes ==
    /\ phaseImpl.pc = "fixes"
    /\ \E fixed \in BOOLEAN :
         LET p == [phaseImpl EXCEPT !.pc = "finish"]
         IN  PhaseStep(IF fixed
                       THEN emit(emit(p, "deployment_started", ""),
                                 "deployment_completed", "")
                       ELSE p)

\* lines 1312-1335: phase_validated, phase_implemented, markPhaseComplete
ImplementPhaseReturns ==
    /\ phaseImpl.pc = "finish"
    /\ PhaseStep(emit(emit([phaseImpl EXCEPT !.pc = "done"], "phase_validated", ""),
                      "phase_implemented", ""))

(***************************************************************************)
(* The client receives the conversation_state message                      *)
(***************************************************************************)
ConversationState ==
    /\ ~chat.received
    /\ chat' = [chat EXCEPT
                  !.messages = handleConversationState(chat.messages, chat.history, chat.session),
                  !.received = TRUE]
    /\ UNCHANGED <<agentVars, fileStore, persisted, registry, projectCall, debugger,
                   phaseImpl,
                   commandRun,
                   gitTool>>

(***************************************************************************)
(* executeCommands (lines 2059-2187), one step per await                   *)
(***************************************************************************)
CommandRunFrame ==
    UNCHANGED <<agentVars, fileStore, persisted, registry, projectCall, debugger,
                phaseImpl, chat,
                   gitTool>>

\* the call has returned: its locals are gone
returned(run) ==
    [run EXCEPT !.pc = "idle", !.commands = <<>>, !.chunks = <<>>, !.chunk = 0,
                !.currentChunk = <<>>, !.retryCount = 0, !.successfulCommands = <<>>,
                !.failed = <<>>, !.sends = 0, !.resent = FALSE]

\* lines 2179-2186: the end of executeCommands
executeCommandsEnds(run) ==
    returned([saveExecutedCommands(run, run.successfulCommands) EXCEPT
                 !.passed = @ \cup SeqRange(run.successfulCommands)])

\* the for loop takes chunk k (lines 2088-2094), or ends after the last
takeChunk(run, k) ==
    IF k > Len(run.chunks) THEN executeCommandsEnds(run)
    ELSE [run EXCEPT !.pc = "sandbox", !.chunk = k, !.currentChunk = run.chunks[k],
                     !.retryCount = 0, !.sends = 1, !.resent = FALSE,
                     !.failed = <<>>]

\* the while loop goes round with the assistant's commands (line 2094)
retryChunk(run, newCommands) ==
    IF Len(newCommands) > 0
       /\ run.retryCount < (IF run.shouldRetry THEN MAX_RETRIES ELSE 1)
    THEN [run EXCEPT !.pc = "sandbox", !.currentChunk = newCommands,
                     !.sends = @ + 1, !.resent = TRUE]
    ELSE takeChunk(run, run.chunk + 1)

\* executeCommands(commands, shouldRetry) up to the first request
ExecuteCommandsCall ==
    /\ commandRun.pc = "idle"
    /\ commandRun.calls < MaxExec
    /\ \E input \in CommandInputs : \E shouldRetry \in BOOLEAN :
         LET cmds == prepareCommands(input)
             run == [commandRun EXCEPT !.calls = @ + 1, !.shouldRetry = shouldRetry,
                                       !.commands = cmds,
                                       !.chunks = commandChunks(cmds, CHUNK_SIZE),
                                       !.successfulCommands = <<>>]
         IN  commandRun' =
                 IF ~state.sandboxInstanceId \/ Len(cmds) = 0
                 THEN [commandRun EXCEPT !.calls = @ + 1]
                 ELSE takeChunk(run, 1)
    /\ CommandRunFrame

\* the sandbox answers (lines 2100-2170): the request fails, or throws, or
\* the commands of ok succeeded and the others failed
ExecuteCommandsResponse ==
    /\ commandRun.pc = "sandbox"
    /\ \/ commandRun' = [commandRun EXCEPT !.pc = "status"]
       \/ commandRun' = takeChunk(commandRun, commandRun.chunk + 1)
       \/ \E ok \in Outcomes(Len(commandRun.currentChunk)) :
            LET currentChunk == commandRun.currentChunk
                successfulCmds == SelectSeq(currentChunk,
                                      LAMBDA cmd : \E i \in ok : currentChunk[i] = cmd)
                failedCommands == SelectSeq(currentChunk,
                                      LAMBDA cmd : ~\E i \in ok : currentChunk[i] = cmd)
                run == [commandRun EXCEPT
                           !.successfulCommands = @ \o successfulCmds,
                           !.succeeded = @ \cup SeqRange(successfulCmds),
                           !.inExecute = @ \cup SeqRange(successfulCmds),
                           !.failed = failedCommands]
                retried == [run EXCEPT !.retryCount = @ + 1]
            IN  commandRun' =
                    IF Len(failedCommands) = 0 \/ ~run.shouldRetry
                    THEN takeChunk(run, run.chunk + 1)
                    ELSE IF /\ \E i \in 1..Len(failedCommands) :
                                   isInstallCommand(failedCommands[i])
                            /\ retried.retryCount < MAX_RETRIES
                    THEN [retried EXCEPT !.pc = "assistant"]
                    ELSE takeChunk(retried, retried.chunk + 1)
    /\ CommandRunFrame

\* getInstanceStatus answers (lines 2108-2113): the call returns when the
\* instance is gone, the chunk is given up otherwise
InstanceStatusResponse ==
    /\ commandRun.pc = "status"
    /\ \/ commandRun' = returned(commandRun)
       \/ commandRun' = takeChunk(commandRun, commandRun.chunk + 1)
    /\ CommandRunFrame

\* generateSetupCommands answers (lines 2151-2165), or throws
AlternativeCommandsResponse ==
    /\ commandRun.pc = "assistant"
    /\ \/ \E newCommands \in AlternativeCommands :
            commandRun' = retryChunk(commandRun, SelectSeq(newCommands, looksLikeCommand))
       \/ commandRun' = takeChunk(commandRun, commandRun.chunk + 1)
    /\ CommandRunFrame

\* execCommands(commands, shouldSave) up to the request (lines 1685-1690)
ExecCommandsCall ==
    /\ commandRun.exec = "idle"
    /\ commandRun.calls < MaxExec
    /\ \E input \in ExecInputs : \E shouldSave \in BOOLEAN :
         commandRun' =
             IF ~state.sandboxInstanceId
             THEN [commandRun EXCEPT !.calls = @ + 1]
             ELSE [commandRun EXCEPT !.calls = @ + 1, !.exec = "sandbox",
                                     !.execCommands = input, !.shouldSave = shouldSave]
    /\ CommandRunFrame

\* the sandbox answers execCommands (lines 1690-1694), or throws
ExecCommandsResponse ==
    /\ commandRun.exec = "sandbox"
    /\ \/ commandRun' = [commandRun EXCEPT !.exec = "idle", !.execCommands = <<>>,
                                            !.shouldSave = FALSE]
       \/ \E ok \in SUBSET SeqRange(commandRun.execCommands) :
            LET run == [commandRun EXCEPT !.exec = "idle", !.succeeded = @ \cup ok]
            IN  commandRun' =
                    [(IF run.shouldSave
                      THEN saveExecutedCommands(run, run.execCommands)
                      ELSE run) EXCEPT !.execCommands = <<>>, !.shouldSave = FALSE]
    /\ CommandRunFrame

(***************************************************************************)
(* A call of the git tool                                                  *)
(***************************************************************************)
GitToolCall ==
    /\ Len(gitTool.storeCalls) < MaxGitCalls
    /\ \E command \in GitCommands : \E message, oid, thrown \in BOOLEAN :
         LET result == implementation(command, message, oid, thrown)
         IN  gitTool' = [gitTool EXCEPT !.storeCalls = Append(@, result.call),
                                        !.result = IF result.success THEN "success"
                                                   ELSE "failure"]
    /\ UNCHANGED <<agentVars, fileStore, persisted, registry, projectCall, debugger,
                   phaseImpl, chat, commandRun>>

(***************************************************************************)
(* migrateStateIfNeeded (lines 1423-1428), called when the agent object is *)
(* built: the stored state is replaced when migrateIfNeeded answers one    *)
(***************************************************************************)
MigrateStateIfNeeded ==
    /\ \E boundary \in {0} \cup ClockReads(persisted.state.conversationMessages) :
         LET migratedState == migrateIfNeeded(persisted.state, boundary)
         IN  persisted' =
               [state |-> IF migratedState.needsMigration
                          THEN migratedState.state ELSE persisted.state,
                migrated |-> TRUE,
                returned |-> IF migratedState.needsMigration THEN "state" ELSE "null",
                seq |-> 1 - persisted.seq]
    /\ UNCHANGED <<agentVars, fileStore, registry, projectCall, debugger, phaseImpl,
                   chat,
                   commandRun,
                   gitTool>>

(***************************************************************************)
(* Specification                                                           *)
(***************************************************************************)
Next ==
    \/ generateAllFiles
    \/ EnsureTemplateDetails
    \/ QueueUserRequest
    \/ StopGeneration
    \/ DeepDebugTool
    \/ \E r \in RunIds :
         \/ RunTemplate(r)
         \/ RunGenIssues(r)
         \/ RunPlanDone(r)
         \/ RunImplIssues(r)
         \/ RunImplDone(r)
         \/ RunDeployDone(r)
         \/ RunReviewIssues(r)
         \/ RunRegistry(r)
    \/ \E d \in DebugIds :
         \/ DebugErrorsFetched(d)
         \/ DebugGenerateFiles(d)
         \/ DebugGenerateDone(d)
         \/ DebugGenerateDeployed(d)
         \/ DebugDone(d)

Spec == Init /\ [][Next]_vars

\* the state machine and its callers alone, with no deep-debug session
NextGeneration ==
    \/ generateAllFiles
    \/ EnsureTemplateDetails
    \/ QueueUserRequest
    \/ StopGeneration
    \/ \E r \in RunIds :
         \/ RunTemplate(r)
         \/ RunGenIssues(r)
         \/ RunPlanDone(r)
         \/ RunImplIssues(r)
         \/ RunImplDone(r)
         \/ RunDeployDone(r)
         \/ RunReviewIssues(r)
         \/ RunRegistry(r)

SpecGeneration == Init /\ [][NextGeneration]_vars

\* the state machine while users queue requests of different texts
NextQueue ==
    \/ generateAllFiles
    \/ EnsureTemplateDetails
    \/ QueueDistinctRequest
    \/ \E r \in RunIds :
         \/ RunTemplate(r)
         \/ RunGenIssues(r)
         \/ RunPlanDone(r)
         \/ RunImplIssues(r)
         \/ RunImplDone(r)
         \/ RunDeployDone(r)
         \/ RunReviewIssues(r)
         \/ RunRegistry(r)

SpecQueue == Init /\ [][NextQueue]_vars

\* The agent at rest after MAX_PHASES - 1 phases were implemented in earlier
\* runs (blueprint.initialPhase and phases that PlanNextPhase named
\* "Earlier"), the last run having ended in PHASE_GENERATING on a failed
\* fetch of the issues, or in PHASE_IMPLEMENTING on a failed implementation
\* of one more phase.
EarlierPhase(completed) ==
    [name |-> EARLIER, files |-> {"a"}, lastPhase |-> FALSE, completed |-> completed]

InitCounter ==
    /\ \E resumable \in BOOLEAN :
         state = [generatedPhases |->
                      <<[name |-> InitialPhase.name, files |-> InitialPhase.files,
                         lastPhase |-> FALSE, completed |-> TRUE]>>
                      \o [i \in 1..(MAX_PHASES - 2) |-> EarlierPhase(TRUE)]
                      \o (IF resumable THEN <<EarlierPhase(FALSE)>> ELSE <<>>),
                  generatedFilesMap |-> {"a"},
                  phasesCounter |-> 1,
                  pendingUserInputs |-> <<>>,
                  mvpGenerated |-> FALSE,
                  reviewingInitiated |-> FALSE,
                  currentPhase |-> NoPhase,
                  reviewCycles |-> 5,
                  lastDeepDebugTranscript |-> 0,
                  conversationMessages |-> <<>>,
                  blueprint |-> NewBlueprint,
                  projectName |-> InitialName,
                  sandboxInstanceId |-> FALSE]
    /\ gitHead = {"a"}
    /\ templateDetailsCache \in BOOLEAN
    /\ generationPromise = "null"
    /\ currentAbortController = "undefined"
    /\ deepDebugPromise = "null"
    /\ runs = [r \in RunIds |-> FreeRun]
    /\ dbg = [d \in DebugIds |-> FreeDebug]
    /\ genWaiters = {}
    /\ sent = {"generation_started", "error", "generation_complete"}
    /\ finalizationImpls = 0
    /\ lastOp = "completed"
    /\ turns = [t \in TurnIds |-> NoTurn]
    /\ full_conversations = <<>>
    /\ compact_conversations = <<>>
    /\ fileStore = NewFileStore
    /\ persisted = NewPersisted
    /\ registry = NewRegistry
    /\ projectCall = NoProjectCall
    /\ debugger = NewDebugger
    /\ phaseImpl = NoPhaseImpl
    /\ chat = NoChat
    /\ commandRun = NoCommandRun
    /\ gitTool = NoGitTool

SpecCounter == InitCounter /\ [][NextGeneration]_vars

\* conversation turns whose assistant uses deep_debug and
\* wait_for_generation, with the runs and the debug sessions of the turns
NextTurns ==
    \/ generateAllFiles
    \/ EnsureTemplateDetails
    \/ \E t \in TurnIds :
         \/ TurnStart(t)
         \/ TurnDeepDebug(t)
         \/ TurnWaitForGeneration(t)
         \/ TurnEnd(t)
    \/ \E r \in RunIds :
         \/ RunTemplate(r)
         \/ RunGenIssues(r)
         \/ RunPlanDone(r)
         \/ RunImplIssues(r)
         \/ RunImplDone(r)
         \/ RunDeployDone(r)
         \/ RunReviewIssues(r)
         \/ RunRegistry(r)
    \/ \E d \in DebugIds :
         \/ DebugErrorsFetched(d)
         \/ DebugDone(d)

SpecTurns == Init /\ [][NextTurns]_vars

\* the turns and the debug sessions while the run a turn has launched is
\* suspended on the first operation it awaits
NextDebug ==
    \/ EnsureTemplateDetails
    \/ DeepDebugTool
    \/ \E t \in TurnIds :
         \/ TurnStart(t)
         \/ TurnDeepDebug(t)
         \/ TurnWaitForGeneration(t)
         \/ TurnWaitForDebug(t)
         \/ TurnEnd(t)
    \/ \E d \in DebugIds :
         \/ DebugErrorsFetched(d)
         \/ DebugDone(d)

SpecDebug == Init /\ [][NextDebug]_vars

\* The conversation store of an agent whose rows were written by earlier
\* activations, or whose conversation is still in state.conversationMessages
\* alone: the stored lists carry what their writers put there, repeated
\* conversationIds included.
StoredLists ==
    UNION { [1..n -> Messages] : n \in 0..MaxStored }

InitConversation ==
    /\ \E legacy \in {<<>>, <<[conversationId |-> REVIEW_ID, content |-> "old"]>>} :
         state = [generatedPhases |-> <<>>,
                  generatedFilesMap |-> {},
                  phasesCounter |-> MAX_PHASES,
                  pendingUserInputs |-> <<>>,
                  mvpGenerated |-> FALSE,
                  reviewingInitiated |-> FALSE,
                  currentPhase |-> NoPhase,
                  reviewCycles |-> 0,
                  lastDeepDebugTranscript |-> 0,
                  conversationMessages |-> legacy]
    /\ gitHead = {}
    /\ templateDetailsCache = TRUE
    /\ generationPromise = "null"
    /\ currentAbortController = "undefined"
    /\ deepDebugPromise = "null"
    /\ runs = [r \in RunIds |-> FreeRun]
    /\ dbg = [d \in DebugIds |-> FreeDebug]
    /\ genWaiters = {}
    /\ sent = {}
    /\ finalizationImpls = 0
    /\ lastOp = "none"
    /\ turns = [t \in TurnIds |-> NoTurn]
    /\ full_conversations \in StoredLists
    /\ compact_conversations \in {<<>>, full_conversations}
    /\ fileStore = NewFileStore
    /\ persisted = NewPersisted
    /\ registry = NewRegistry
    /\ projectCall = NoProjectCall
    /\ debugger = NewDebugger
    /\ phaseImpl = NoPhaseImpl
    /\ chat = NoChat
    /\ commandRun = NoCommandRun
    /\ gitTool = NoGitTool

NextConversation ==
    \/ AddConversationMessage
    \/ ClearConversation

SpecConversation == InitConversation /\ [][NextConversation]_vars

\* The file manager alone, with the template loaded: a caller saves one
\* list of files, any number of times, and deletes files, while the syncs
\* that the commits start complete.  At the start generatedFilesMap has
\* been rebuilt from HEAD and has then been given the files of staged,
\* saved without a commit message.
Heads == UNION { [S -> FileContents] : S \in SUBSET StorePaths }

StagedFile(path) ==
    saveLoop(<<>>, <<>>, <<[filePath |-> path, fileContents |-> "y",
                            filePurpose |-> "p"]>>).filesMap[path]

InitFiles ==
    /\ \E files \in FileLists : \E head \in Heads :
       \E staged \in SUBSET (StorePaths \ DOMAIN head) :
         /\ LET synced == Store_syncGeneratedFilesMapFromGit(
                              [NewFileStore EXCEPT !.head = head]).generatedFilesMap
            IN  fileStore =
                    [NewFileStore EXCEPT
                       !.head = head,
                       !.files = files,
                       !.generatedFilesMap =
                          [path \in DOMAIN head \cup staged |->
                              IF path \in staged THEN StagedFile(path)
                              ELSE synced[path]]]
         /\ state = [generatedPhases |-> <<>>,
                     generatedFilesMap |-> DOMAIN head \cup staged,
                     phasesCounter |-> MAX_PHASES,
                     pendingUserInputs |-> <<>>,
                     mvpGenerated |-> FALSE,
                     reviewingInitiated |-> FALSE,
                     currentPhase |-> NoPhase,
                     reviewCycles |-> 0,
                     lastDeepDebugTranscript |-> 0,
                     conversationMessages |-> <<>>,
                     blueprint |-> NewBlueprint,
                     projectName |-> InitialName,
                     sandboxInstanceId |-> FALSE]
         /\ gitHead = DOMAIN head
    /\ templateDetailsCache = TRUE
    /\ generationPromise = "null"
    /\ currentAbortController = "undefined"
    /\ deepDebugPromise = "null"
    /\ runs = [r \in RunIds |-> FreeRun]
    /\ dbg = [d \in DebugIds |-> FreeDebug]
    /\ genWaiters = {}
    /\ sent = {}
    /\ finalizationImpls = 0
    /\ lastOp = "none"
    /\ turns = [t \in TurnIds |-> NoTurn]
    /\ full_conversations = <<>>
    /\ compact_conversations = <<>>
    /\ persisted = NewPersisted
    /\ registry = NewRegistry
    /\ projectCall = NoProjectCall
    /\ debugger = NewDebugger
    /\ phaseImpl = NoPhaseImpl
    /\ chat = NoChat
    /\ commandRun = NoCommandRun
    /\ gitTool = NoGitTool

NextFiles ==
    \/ SaveGeneratedFiles
    \/ DeleteFiles
    \/ SyncGeneratedFilesMapFromGit

SpecFiles == InitFiles /\ [][NextFiles]_vars

\* the migration alone, applied again and again to a stored state
\* the state of Init
NewState ==
    [generatedPhases |-> <<>>,
     generatedFilesMap |-> {},
     phasesCounter |-> MAX_PHASES,
     pendingUserInputs |-> <<>>,
     mvpGenerated |-> FALSE,
     reviewingInitiated |-> FALSE,
     currentPhase |-> NoPhase,
     reviewCycles |-> 0,
     lastDeepDebugTranscript |-> 0,
     conversationMessages |-> <<>>,
     blueprint |-> NewBlueprint,
     projectName |-> InitialName,
     sandboxInstanceId |-> FALSE]

\* no run, no session, no turn, the template details loaded
InitRuns ==
    /\ gitHead = {}
    /\ templateDetailsCache = TRUE
    /\ generationPromise = "null"
    /\ currentAbortController = "undefined"
    /\ deepDebugPromise = "null"
    /\ runs = [r \in RunIds |-> FreeRun]
    /\ dbg = [d \in DebugIds |-> FreeDebug]
    /\ genWaiters = {}
    /\ sent = {}
    /\ finalizationImpls = 0
    /\ lastOp = "none"
    /\ turns = [t \in TurnIds |-> NoTurn]
    /\ full_conversations = <<>>
    /\ compact_conversations = <<>>

\* the agent of Init with its template details loaded
InitAgent ==
    /\ state = NewState
    /\ InitRuns

InitMigration ==
    /\ InitAgent
    /\ fileStore = NewFileStore
    /\ \E st \in StoredStates : persisted = [NewPersisted EXCEPT !.state = st]
    /\ registry = NewRegistry
    /\ projectCall = NoProjectCall
    /\ debugger = NewDebugger
    /\ phaseImpl = NoPhaseImpl
    /\ chat = NoChat
    /\ commandRun = NoCommandRun
    /\ gitTool = NoGitTool

NextMigration == MigrateStateIfNeeded

SpecMigration == InitMigration /\ [][NextMigration]_vars

\* the project name and the blueprint, with or without a sandbox instance
InitProject ==
    /\ \E sandboxInstanceId \in BOOLEAN :
         state = [NewState EXCEPT !.sandboxInstanceId = sandboxInstanceId]
    /\ InitRuns
    /\ fileStore = NewFileStore
    /\ persisted = NewPersisted
    /\ registry = NewRegistry
    /\ projectCall = NoProjectCall
    /\ debugger = NewDebugger
    /\ phaseImpl = NoPhaseImpl
    /\ chat = NoChat
    /\ commandRun = NoCommandRun
    /\ gitTool = NoGitTool

NextProject ==
    \/ UpdateProjectName
    \/ UpdateBlueprint

SpecProject == InitProject /\ [][NextProject]_vars

\* one deep debug session calling its tools
InitLoop ==
    /\ InitAgent
    /\ fileStore = NewFileStore
    /\ persisted = NewPersisted
    /\ registry = NewRegistry
    /\ projectCall = NoProjectCall
    /\ debugger = NewDebugger
    /\ phaseImpl = NoPhaseImpl
    /\ chat = NoChat
    /\ commandRun = NoCommandRun
    /\ gitTool = NoGitTool

NextLoop ==
    \/ DebugToolCall
    \/ DebuggerClock

SpecLoop == InitLoop /\ [][NextLoop]_vars

\* one implementPhase call, with or without a sandbox instance
InitPhase ==
    /\ \E sandboxInstanceId \in BOOLEAN :
         state = [NewState EXCEPT !.sandboxInstanceId = sandboxInstanceId]
    /\ InitRuns
    /\ fileStore = NewFileStore
    /\ persisted = NewPersisted
    /\ registry = NewRegistry
    /\ projectCall = NoProjectCall
    /\ debugger = NewDebugger
    /\ phaseImpl = NoPhaseImpl
    /\ chat = NoChat
    /\ commandRun = NoCommandRun
    /\ gitTool = NoGitTool

NextPhase ==
    \/ ImplementPhase
    \/ FileGeneratingCallback
    \/ FileChunkGeneratedCallback
    \/ FileClosedCallback
    \/ ImplementPhaseSettles
    \/ ExecuteCommands
    \/ SyncPackageJsonFromSandbox
    \/ DeploymentStarted
    \/ DeploymentSettles
    \/ PostPhaseFixes
    \/ ImplementPhaseReturns

SpecPhase == InitPhase /\ [][NextPhase]_vars

\* a client with its view about to receive a conversation_state message
InitChat ==
    /\ InitAgent
    /\ fileStore = NewFileStore
    /\ persisted = NewPersisted
    /\ registry = NewRegistry
    /\ projectCall = NoProjectCall
    /\ debugger = NewDebugger
    /\ phaseImpl = NoPhaseImpl
    /\ commandRun = NoCommandRun
    /\ gitTool = NoGitTool
    /\ \E history \in Histories : \E session \in {<<>>, <<"conv", 1>>} :
       \E prev \in {<<>>, <<FETCHING>>, <<RECONNECTED>>} :
         chat = [history |-> history, session |-> session, messages |-> prev,
                 received |-> FALSE]

NextChat == ConversationState

SpecChat == InitChat /\ [][NextChat]_vars

\* the agent at rest, with or without a sandbox instance
InitCommands ==
    /\ InitRuns
    /\ \E sandboxInstanceId \in BOOLEAN :
         state = [NewState EXCEPT !.sandboxInstanceId = sandboxInstanceId]
    /\ fileStore = NewFileStore
    /\ persisted = NewPersisted
    /\ registry = NewRegistry
    /\ projectCall = NoProjectCall
    /\ debugger = NewDebugger
    /\ phaseImpl = NoPhaseImpl
    /\ chat = NoChat
    /\ commandRun = NoCommandRun
    /\ gitTool = NoGitTool

NextCommands ==
    \/ ExecuteCommandsCall
    \/ ExecuteCommandsResponse
    \/ InstanceStatusResponse
    \/ AlternativeCommandsResponse

SpecCommands == InitCommands /\ [][NextCommands]_vars

\* executeCommands calls and the execCommands calls of the tools
NextHistory ==
    \/ NextCommands
    \/ ExecCommandsCall
    \/ ExecCommandsResponse

SpecHistory == InitCommands /\ [][NextHistory]_vars

\* the git tool of the conversation (buildTools, without reset) or of the
\* debugger (all commands)
InitGitTool ==
    /\ InitAgent
    /\ fileStore = NewFileStore
    /\ persisted = NewPersisted
    /\ registry = NewRegistry
    /\ projectCall = NoProjectCall
    /\ debugger = NewDebugger
    /\ phaseImpl = NoPhaseImpl
    /\ chat = NoChat
    /\ commandRun = NoCommandRun
    /\ \E excludeCommands \in {{}, {"reset"}} : gitTool = createGitTool(excludeCommands)

NextGitTool == GitToolCall

SpecGitTool == InitGitTool /\ [][NextGitTool]_vars

(***************************************************************************)
(* Properties                                                              *)
(***************************************************************************)

\* C1: whatever the interleaving of generateAllFiles calls, at most one
\* activation of launchStateMachine is in progress, and a call made while
\* one is in progress starts none.
C1_SingleRun ==
    [][ /\ Cardinality({ r \in RunIds : runs'[r].pc # "free" }) <= 1
        /\ (generateAllFiles /\ ActiveRuns # {}) => runs' = runs ]_vars

C1_Witness == lastOp = "reentry_during_run" /\ Cardinality(ActiveRuns) = 1

\* C2: a state-machine run and a deep-debug session never overlap:
\* isCodeGenerating() and isDeepDebugging() are never both true.
C2_NoOverlap == ~(isCodeGenerating /\ isDeepDebugging)

\* C3: however a run ends, its finally block has cleared the abort
\* controller, generation_complete is broadcast and isCodeGenerating() is
\* false, so that a later generateAllFiles can start a run.
C3_RunExits ==
    [][ \A r \in RunIds :
          (runs[r].pc # "free" /\ runs'[r].pc = "free") =>
             /\ runs[r].pc = "registry"
             /\ "generation_complete" \in sent'
             /\ generationPromise' = "null" ]_vars

\* C4: when stopGeneration() returns during an active run,
\* generation_stopped has been broadcast and isCodeGenerating() is false.
C4_StopVisible ==
    [][ (StopGeneration /\ ActiveRuns # {}) =>
            ("generation_stopped" \in sent' /\ generationPromise' = "null") ]_vars

\* C5: once the inference of an active run was cancelled, the run starts no
\* further PlanNextPhase or ImplementPhase operation, and the cancellation
\* leaves the persisted state as it was.
C5_StopEndsRun ==
    [][ \A r \in RunIds :
          /\ (~runs[r].stopped /\ runs'[r].stopped) => state' = state
          /\ ~runs'[r].opAfterStop ]_vars

\* C6: the state a run starts in follows from generatedPhases: with an
\* incomplete phase it is PHASE_IMPLEMENTING on the last incomplete phase,
\* and no PlanNextPhase comes before that implementation; with only completed
\* phases it is PHASE_GENERATING; with no phase blueprint.initialPhase is
\* appended as an incomplete phase and implemented first.
C6_FirstState ==
    [][ \A r \in RunIds :
          /\ (runs[r].pc \in {"free", "template"} /\ runs'[r].pc \notin {"free", "template"}) =>
                LET phases == state.generatedPhases
                    LastIncompleteIndex(ps) ==
                        CHOOSE i \in DOMAIN ps :
                            ~ps[i].completed /\ \A j \in DOMAIN ps : j > i => ps[j].completed
                IN
                IF \E i \in DOMAIN phases : ~phases[i].completed
                THEN /\ runs'[r].firstState = "PHASE_IMPLEMENTING"
                     /\ runs'[r].pc = "impl_issues"
                     /\ runs'[r].phaseConcept.name = phases[LastIncompleteIndex(phases)].name
                     /\ runs'[r].phaseConcept.files = phases[LastIncompleteIndex(phases)].files
                     /\ state'.generatedPhases = phases
                ELSE IF phases # <<>>
                THEN /\ runs'[r].firstState = "PHASE_GENERATING"
                     /\ runs'[r].pc = "gen_issues"
                     /\ state'.generatedPhases = phases
                ELSE /\ runs'[r].firstState = "PHASE_IMPLEMENTING"
                     /\ runs'[r].pc = "impl_issues"
                     /\ runs'[r].phaseConcept = InitialPhase
                     /\ Len(state'.generatedPhases) = 1
                     /\ state'.generatedPhases[1].name = InitialPhase.name
                     /\ ~state'.generatedPhases[1].completed
          /\ runs'[r].firstState = "PHASE_IMPLEMENTING" =>
                runs'[r].firstOp # "PlanNextPhase" ]_vars

\* a run resumed on the incomplete phase "Core" after "Initial" was completed
C6_Witness ==
    \E r \in RunIds :
        /\ runs[r].firstState = "PHASE_IMPLEMENTING"
        /\ runs[r].firstOp = "Core"
        /\ runs[r].pc = "impl"
        /\ Len(state.generatedPhases) >= 2
        /\ state.generatedPhases[1].completed

\* C7: every file of every completed phase is a key of generatedFilesMap.
C7_PhaseCompleteness ==
    \A i \in DOMAIN state.generatedPhases :
        state.generatedPhases[i].completed =>
            state.generatedPhases[i].files \subseteq state.generatedFilesMap

\* C8: a generateAllFiles call that arrives during a run does not return
\* before that run has exited.
C8_ReentryAwaits == lastOp # "reentry_during_run"

\* C8 as amended: a generateAllFiles call that arrives during a run returns
\* at once, while the run is still in progress: it is never suspended on the
\* generation promise and never returns at the exit of the run.
C8_ReentryReturnsAtOnce ==
    [][ /\ (generateAllFiles /\ ActiveRuns # {}) =>
              /\ lastOp' \in {"noop", "reentry_during_run"}
              /\ genWaiters' = genWaiters
              /\ generationPromise' = generationPromise
              /\ runs' = runs
        /\ "reentry" \notin genWaiters'
        /\ lastOp' # "reentry_after_exit" ]_vars

\* the caller that launched the run is still suspended on the promise while
\* the caller that arrived during the run has returned
C8_Witness ==
    /\ lastOp = "reentry_during_run"
    /\ generationPromise = "pending"
    /\ genWaiters = {"launch"}
    /\ \E r \in RunIds : runs[r].pc \in {"plan", "impl", "deploy"}

\* C9: across all runs, implementPhase is called at most once on the
\* "Finalization and Review" phase.
C9_FinalizationOnce == finalizationImpls <= 1

\* C10: with mvpGenerated set and no pending user input, generateAllFiles
\* starts no run, broadcasts nothing and changes nothing of the agent.
C10_NoOpWhenDone ==
    [][ (generateAllFiles /\ state.mvpGenerated /\ Len(state.pendingUserInputs) = 0) =>
            UNCHANGED <<state, gitHead, templateDetailsCache, generationPromise,
                        currentAbortController, deepDebugPromise, runs, dbg,
                        genWaiters, sent, finalizationImpls>> ]_vars

C10_Witness ==
    /\ lastOp = "noop"
    /\ state.mvpGenerated
    /\ Len(state.pendingUserInputs) = 0
    /\ generationPromise = "null"

\* C11: phasesCounter is never negative, and an implementation that starts
\* when phasesCounter is 0 (or less) and no user input is pending is that of
\* a last phase.
C11_CounterFloor ==
    [][ /\ state'.phasesCounter >= 0
        /\ \A r \in RunIds :
              ( /\ runs[r].pc \in {"impl_issues", "fin_issues"}
                /\ runs'[r].pc = "impl"
                /\ state.phasesCounter <= 0
                /\ Len(state.pendingUserInputs) = 0 )
              => runs[r].phaseConcept.lastPhase ]_vars

\* the finalization phase being implemented after the counter reached 0
C11_Witness ==
    /\ state.phasesCounter = 0
    /\ Len(state.pendingUserInputs) = 0
    /\ \E r \in RunIds : runs[r].pc = "impl" /\ runs[r].phaseConcept.name = FINALIZATION

C13_ErrorPolicy ==
    [][ \A r \in RunIds :
          (runs[r].raised = "none" /\ runs'[r].raised # "none") =>
             /\ runs'[r].currentDevState = "IDLE"
             /\ IF runs'[r].raised = "RateLimitExceeded"
                THEN "rate_limit_error" \in sent'
                ELSE "error" \in sent' ]_vars

\* C14 as stated: at most one deep-debug session is active, and a deep_debug
\* call made while a session is running returns DEBUG_IN_PROGRESS and starts
\* no session.
C14_DebugInProgress ==
    [][ /\ Cardinality({d \in DebugIds : dbg'[d].pc # "free"}) <= 1
        /\ \A t \in TurnIds :
             (/\ turns[t].pc = "ready"
              /\ turns'[t].calls > turns[t].calls
              /\ \E d \in DebugIds : dbg[d].pc # "free")
             => /\ turns'[t].result = "DEBUG_IN_PROGRESS"
                /\ dbg' = dbg ]_vars

\* C14, amended: at most one deep-debug session is active at any time; a
\* deep_debug call made while a session is running starts no session and
\* returns an error tag, which is DEBUG_IN_PROGRESS when the call is the
\* first one of its turn and no generation promise is set, and the tag of an
\* earlier check (CALL_LIMIT_EXCEEDED, GENERATION_IN_PROGRESS) otherwise.
C14_OneSession ==
    [][ /\ Cardinality({d \in DebugIds : dbg'[d].pc # "free"}) <= 1
        /\ \A t \in TurnIds :
             (/\ turns[t].pc = "ready"
              /\ turns'[t].calls > turns[t].calls
              /\ \E d \in DebugIds : dbg[d].pc # "free")
             => /\ dbg' = dbg
                /\ turns'[t].pc = "ready"
                /\ turns'[t].result =
                      IF turns[t].calls > 0 THEN "CALL_LIMIT_EXCEEDED"
                      ELSE IF generationPromise # "null" THEN "GENERATION_IN_PROGRESS"
                      ELSE "DEBUG_IN_PROGRESS" ]_vars

\* a turn was told DEBUG_IN_PROGRESS and waits for the session that runs
C14_Witness ==
    \E t \in TurnIds, d \in DebugIds :
        /\ turns[t].result = "DEBUG_IN_PROGRESS"
        /\ turns[t].pc = "wait_dbg"
        /\ turns[t].session = d
        /\ dbg[d].pc = "run"

\* C15: in a turn the first deep_debug invocation passes the call limit and
\* every later one returns CALL_LIMIT_EXCEEDED and starts no debug session;
\* the first invocation of any later turn passes again.
C15_CallLimit ==
    [][ \A t \in TurnIds :
          (turns[t].pc = "ready" /\ turns'[t].calls > turns[t].calls)
          => IF turns[t].calls = 0
             THEN turns'[t].result # "CALL_LIMIT_EXCEEDED"
             ELSE /\ turns'[t].result = "CALL_LIMIT_EXCEEDED"
                  /\ turns'[t].pc = "ready"
                  /\ dbg' = dbg
                  /\ deepDebugPromise' = deepDebugPromise ]_vars

\* the second invocation of a turn was refused after the first one had run a
\* session to its end, and no session is active
C15_Witness ==
    \E t \in TurnIds :
        /\ turns[t].calls = 2
        /\ turns[t].result = "CALL_LIMIT_EXCEEDED"
        /\ state.lastDeepDebugTranscript \in Transcripts
        /\ \A d \in DebugIds : dbg[d].pc = "free"

\* C16: a turn that got GENERATION_IN_PROGRESS from deep_debug, then called
\* wait_for_generation, and retries deep_debug when no run and no session is
\* in progress, has the debug session started.
C16_RetryRuns ==
    [][ \A t \in TurnIds :
          (/\ turns[t].pc = "ready"
           /\ turns[t].result = "GENERATION_IN_PROGRESS"
           /\ turns[t].waited
           /\ turns'[t].calls > turns[t].calls
           /\ ~isCodeGenerating
           /\ ~isDeepDebugging)
          => turns'[t].pc = "debug" ]_vars

\* C17: a session that returns transcript t to the tool leaves
\* lastDeepDebugTranscript = t and one that returns an error leaves it as it
\* was; nothing but the success of a session changes it, and a session that
\* starts receives its value as previousTranscript.
C17_TranscriptChain ==
    [][ /\ \A t \in TurnIds :
             (turns[t].pc = "debug" /\ turns'[t].pc = "ready")
             => IF turns'[t].result = "transcript"
                THEN state'.lastDeepDebugTranscript = turns'[t].transcript
                ELSE state'.lastDeepDebugTranscript = state.lastDeepDebugTranscript
        /\ \A d \in DebugIds :
             (dbg[d].pc = "free" /\ dbg'[d].pc # "free")
             => dbg'[d].previousTranscript = state.lastDeepDebugTranscript
        /\ state'.lastDeepDebugTranscript # state.lastDeepDebugTranscript
             => \E d \in DebugIds : dbg[d].pc = "run" /\ dbg'[d].pc = "free" ]_vars

\* a turn's session has succeeded and the next session holds its transcript
C17_Witness ==
    \E t \in TurnIds, d \in DebugIds :
        /\ turns[t].result = "transcript"
        /\ dbg[d].pc = "run"
        /\ dbg[d].previousTranscript = turns[t].transcript
        /\ state.lastDeepDebugTranscript = turns[t].transcript

\* C18: whatever was stored and whatever addConversationMessage calls were
\* made, neither history returned by getConversationState holds two
\* messages with the same conversationId.
C18_NoDuplicates ==
    LET conversationState ==
            getConversationState(state, full_conversations, compact_conversations)
        Distinct(history) ==
            \A i, j \in DOMAIN history :
                i # j => history[i].conversationId # history[j].conversationId
    IN  /\ Distinct(conversationState.fullHistory)
        /\ Distinct(conversationState.runningHistory)

\* addConversationMessage has replaced a message of a list of two
C18_Witness ==
    /\ lastOp = "addConversationMessage"
    /\ Len(full_conversations) = 2
    /\ Len(compact_conversations) = 2
    /\ full_conversations[1].content = "new"
    /\ full_conversations[2].content = "old"

\* C19: of the messages with one conversationId that are in the store, the
\* histories returned by getConversationState hold the latest one.
C19_LastWriterWins ==
    LET conversationState ==
            getConversationState(state, full_conversations, compact_conversations)
        Latest(stored, id) ==
            stored[CHOOSE i \in DOMAIN stored :
                      /\ stored[i].conversationId = id
                      /\ \A j \in DOMAIN stored :
                           stored[j].conversationId = id => j <= i]
        Retained(history, stored) ==
            \A k \in DOMAIN history :
                history[k] = Latest(stored, history[k].conversationId)
    IN  /\ Len(full_conversations) > 0
           => Retained(conversationState.fullHistory, full_conversations)
        /\ Len(compact_conversations) > 0
           => Retained(conversationState.runningHistory, compact_conversations)

\* C20: no step removes a conversationId from the stored full history, and
\* the step that empties state.conversationMessages changes nothing else of
\* the state, leaves the stored histories alone and broadcasts
\* conversation_cleared.
C20_FullHistoryAppendOnly ==
    [][ /\ Ids(full_conversations) \subseteq Ids(full_conversations')
        /\ state'.conversationMessages # state.conversationMessages
           => /\ state' = [state EXCEPT !.conversationMessages = <<>>]
              /\ UNCHANGED convVars
              /\ "conversation_cleared" \in sent' ]_vars

\* a step that is a call of saveGeneratedFiles(files, m) made when
\* generatedFilesMap still holds what the previous call
\* saveGeneratedFiles(files, m) stored: the second of two identical calls
SecondSave ==
    /\ fileStore'.saved.seq # fileStore.saved.seq
    /\ fileStore.saved.valid
    /\ fileStore.saved.commitMessage
    /\ fileStore'.saved.commitMessage

\* C21 as stated: the second of two identical calls of saveGeneratedFiles
\* returns an empty lastDiff for every file and makes no commit, for every
\* list of files.
C21_IdempotentSave ==
    [][ SecondSave =>
          /\ \A i \in 1..Len(fileStore'.returned) :
                fileStore'.returned[i].lastDiff = NoDiff
          /\ ~fileStore'.committed ]_vars

\* entries of the list with the same path have the same contents
SamePathSameContents(files) ==
    \A i, j \in 1..Len(files) :
        files[i].filePath = files[j].filePath
            => files[i].fileContents = files[j].fileContents

\* C21 amended: for a list in which entries with the same path have the
\* same contents, the second of two identical calls returns an empty
\* lastDiff for every file, makes no commit and starts no sync.
C21_IdempotentSaveDistinct ==
    [][ SecondSave /\ SamePathSameContents(fileStore.files) =>
          /\ \A i \in 1..Len(fileStore'.returned) :
                fileStore'.returned[i].lastDiff = NoDiff
          /\ ~fileStore'.committed
          /\ fileStore'.head = fileStore.head
          /\ fileStore'.pendingSyncs = fileStore.pendingSyncs ]_vars

\* the second of two identical calls has returned, the commit of the first
\* one is at HEAD and its sync is still pending
C21_Witness ==
    /\ fileStore.saved.valid
    /\ fileStore.saved.commitMessage
    /\ fileStore.saved.seq = 0
    /\ fileStore.pendingSyncs = 1
    /\ Len(fileStore.files) = 2
    /\ fileStore.files[1].filePath # fileStore.files[2].filePath
    /\ \A i \in 1..2 :
          /\ fileStore.files[i].filePath \in DOMAIN fileStore.head
          /\ fileStore.head[fileStore.files[i].filePath] = fileStore.files[i].fileContents
          /\ fileStore.returned[i].lastDiff = NoDiff

\* a step in which a sync from git HEAD completes
SyncCompletes ==
    /\ fileStore'.pendingSyncs < fileStore.pendingSyncs
    /\ fileStore'.synced

\* C22 as stated: when a sync from git HEAD completes, the keys of
\* generatedFilesMap are the paths at HEAD and every path that had an entry
\* keeps the purpose of that entry.
C22_SyncParity ==
    [][ SyncCompletes =>
          /\ DOMAIN fileStore'.generatedFilesMap = DOMAIN fileStore'.head
          /\ \A path \in DOMAIN fileStore.generatedFilesMap
                           \cap DOMAIN fileStore'.generatedFilesMap :
                fileStore'.generatedFilesMap[path].filePurpose
                  = fileStore.generatedFilesMap[path].filePurpose ]_vars

\* C22 amended: when a sync from git HEAD completes, the keys of
\* generatedFilesMap are the paths at HEAD, each with the contents at HEAD
\* and an empty lastDiff; a path that had an entry with a non-empty purpose
\* keeps that purpose and every other path has the purpose 'Generated file'.
C22_SyncParityNonEmptyPurpose ==
    [][ SyncCompletes =>
          /\ DOMAIN fileStore'.generatedFilesMap = DOMAIN fileStore'.head
          /\ fileStore'.head = fileStore.head
          /\ \A path \in DOMAIN fileStore'.generatedFilesMap :
                LET new == fileStore'.generatedFilesMap[path]
                    had == path \in DOMAIN fileStore.generatedFilesMap
                           /\ fileStore.generatedFilesMap[path].filePurpose # ""
                IN  /\ new.fileContents = fileStore.head[path]
                    /\ new.lastDiff = NoDiff
                    /\ new.filePurpose = IF had
                                         THEN fileStore.generatedFilesMap[path].filePurpose
                                         ELSE GENERATED_FILE ]_vars

\* a sync has completed that kept the purpose "p" of one of the two files
\* of the list and replaced the purpose "" of the other
C22_Witness ==
    /\ fileStore.synced
    /\ DOMAIN fileStore.generatedFilesMap = {"a", "b"}
    /\ Len(fileStore.files) = 2
    /\ \E i, j \in 1..2 :
          /\ fileStore.files[i].filePurpose = "p"
          /\ fileStore.files[j].filePurpose = ""
          /\ fileStore.files[i].filePath # fileStore.files[j].filePath
          /\ fileStore.generatedFilesMap[fileStore.files[i].filePath].filePurpose = "p"
          /\ fileStore.generatedFilesMap[fileStore.files[j].filePath].filePurpose
                = GENERATED_FILE
    /\ fileStore.saved.valid

(***************************************************************************)
(* Migration                                                               *)
(***************************************************************************)
\* a step is a call of migrateIfNeeded
MigrationCall == persisted'.seq # persisted.seq

\* the upgrades of the migration engine that the stored state st needs:
\* old file format, two messages with one conversationId, more than
\* MIN_MESSAGES_FOR_CLEANUP messages with an internal memo among them,
\* userApiKeys, templateDetails, no projectName, no projectUpdatesAccumulator
ListedUpgrades(st) ==
    LET messages == st.conversationMessages
    IN  \/ st.file = "old"
        \/ \E i, j \in 1..Len(messages) :
              /\ i < j
              /\ messages[i].conversationId # 0
              /\ messages[i].conversationId = messages[j].conversationId
        \/ /\ Len(messages) > MIN_MESSAGES_FOR_CLEANUP
           /\ \E i \in 1..Len(messages) : isInternalMemo(messages[i])
        \/ st.userApiKeys
        \/ st.templateDetails
        \/ st.projectName = ""
        \/ ~st.projectUpdatesAccumulator

\* C23: migration is a fixed point: migrateIfNeeded applied to a state
\* that a migration already went over returns null and changes nothing, and
\* migrateIfNeeded returns null for a state that needs none of the listed
\* upgrades.
C23_MigrationFixedPoint ==
    [][MigrationCall =>
         /\ persisted.migrated =>
              /\ persisted'.returned = "null"
              /\ persisted'.state = persisted.state
         /\ ~ListedUpgrades(persisted.state) => persisted'.returned = "null"]_vars

(***************************************************************************)
(* Project name and blueprint                                              *)
(***************************************************************************)
\* a step is a call of op
ProjectCallOf(op) == projectCall'.seq # projectCall.seq /\ projectCall'.op = op

\* C24: for every name that does not match the pattern, updateProjectName
\* returns false and changes nothing: the state and the registry row are
\* the same, neither the sandbox service nor the registry is called and no
\* event is broadcast.
C24_InvalidNameChangesNothing ==
    [][ProjectCallOf("updateProjectName") /\ ~valid(projectCall'.newName) =>
          /\ projectCall'.returned = "false"
          /\ state' = state
          /\ registry' = registry
          /\ ~projectCall'.sandboxCalled
          /\ ~projectCall'.registryCalled
          /\ projectCall'.events = <<>>]_vars

\* updateProjectName was called with "My App" by an agent that has a sandbox
\* instance, and returned false
C24_Witness ==
    /\ projectCall.op = "updateProjectName"
    /\ projectCall.newName = <<"M", "y", " ", "A", "p", "p">>
    /\ projectCall.returned = "false"
    /\ state.sandboxInstanceId

\* C25: after updateProjectName(newName) returned true,
\* state.blueprint.projectName, state.projectName and the title of the
\* registry row all equal newName.
C25_NamesAgree ==
    projectCall.op = "updateProjectName" /\ projectCall.returned = "true" =>
        /\ state.blueprint["projectName"] = projectCall.newName
        /\ state.projectName = projectCall.newName
        /\ registry.title = projectCall.newName

\* C26: updateBlueprint(patch) changes only whitelisted keys of the
\* blueprint: the keys outside the whitelist keep their values,
\* blueprint.projectName changes only through the delegated
\* updateProjectName, and a patch with an invalid projectName leaves
\* projectName unchanged while its other whitelisted keys are applied.
C26_OnlyWhitelistedKeys ==
    [][ProjectCallOf("updateBlueprint") =>
          LET patch == projectCall'.patch
              old == state.blueprint
              new == state'.blueprint
          IN  /\ \A k \in BlueprintKeys \ allowed : new[k] = old[k]
              /\ new["projectName"] # old["projectName"] =>
                    /\ "projectName" \in DOMAIN patch
                    /\ valid(patch["projectName"])
                    /\ new["projectName"] = patch["projectName"]
                    /\ \E i \in 1..Len(projectCall'.events) :
                          projectCall'.events[i] = "project_name_updated"
              /\ "projectName" \in DOMAIN patch /\ ~valid(patch["projectName"]) =>
                    /\ new["projectName"] = old["projectName"]
                    /\ \A k \in (DOMAIN patch \cap allowed) \ {"projectName"} :
                          new[k] = patch[k]]_vars

(***************************************************************************)
(* Deleted files                                                           *)
(***************************************************************************)
\* C27: deleting files is a hard delete from the store: a path given to
\* deleteFiles is not a key of generatedFilesMap until it is saved again,
\* also after later commits have re-synced the map from git HEAD.
C27_DeletedStaysAbsent ==
    \A filePath \in fileStore.deleted :
        filePath \notin DOMAIN fileStore.generatedFilesMap

(***************************************************************************)
(* Repetition guard                                                        *)
(***************************************************************************)
\* a step is a tool call of the deep debug session
ToolCalled == debugger'.calls # debugger.calls

\* C28: when a debug tool is called with the same name and the same
\* arguments for the third or later time within the ten-minute window, a
\* warning is injected into the conversation and the implementation of the
\* tool is not executed.
C28_RepetitionBlocked ==
    [][ToolCalled /\ debugger'.matching >= 2 =>
          /\ debugger'.warnings = debugger.warnings + 1
          /\ debugger'.executed = debugger.executed]_vars

(***************************************************************************)
(* Events of a phase implementation                                        *)
(***************************************************************************)
PhaseEventTypes ==
    {"phase_implementing", "phase_validating", "phase_validated", "phase_implemented"}

FileEventTypes == {"file_generating", "file_chunk_generated", "file_generated"}

\* the positions of the events of this type in the log
Positions(type) ==
    { i \in 1..Len(phaseImpl.events) : phaseImpl.events[i].type = type }

\* every event of type first comes before every event of type second
Before(first, second) ==
    \A i \in Positions(first) : \A j \in Positions(second) : i < j

\* the types of the phase events of the log, in order
PhaseEvents ==
    LET log == SelectSeq(phaseImpl.events, LAMBDA e : e.type \in PhaseEventTypes)
    IN  [i \in 1..Len(log) |-> log[i].type]

\* C29: the phase events of a phase implementation are broadcast in the
\* order phase_implementing, phase_validating, phase_validated,
\* phase_implemented, each exactly once on success, and every
\* file_generating, file_chunk_generated and file_generated event of a file
\* of the phase comes after phase_implementing and before phase_validating.
C29_PhaseEventOrder ==
    LET order == <<"phase_implementing", "phase_validating", "phase_validated",
                   "phase_implemented">>
    IN  /\ Len(PhaseEvents) <= 4
        /\ PhaseEvents = SubSeq(order, 1, Len(PhaseEvents))
        /\ phaseImpl.pc = "done" => PhaseEvents = order
        /\ \A i \in 1..Len(phaseImpl.events) :
              /\ phaseImpl.events[i].type \in FileEventTypes
              /\ phaseImpl.events[i].filePath \in phaseImpl.files
              => /\ \E j \in Positions("phase_implementing") : j < i
                 /\ \A j \in Positions("phase_validating") : i < j

\* C30: for a phase that produced files the deployment events come after
\* the validation: phase_validated is broadcast before deployment_started,
\* and deployment_completed before phase_implemented.
C30_DeploymentAfterValidation ==
    phaseImpl.finalFiles # {} =>
        /\ \A i \in Positions("deployment_started") :
              \E j \in Positions("phase_validated") : j < i
        /\ Before("deployment_completed", "phase_implemented")

(***************************************************************************)
(* Internal memos in the chat view                                         *)
(***************************************************************************)
\* C31: in the view restored from a conversation_state message no message
\* (and no tool result) has a text that contains <Internal Memo>, whatever
\* the running history; the history is not modified.
C31_NoInternalMemoInView ==
    [][chat'.received /\ ~chat.received =>
          /\ \A i \in 1..Len(chat'.messages) :
                /\ ~includes(chat'.messages[i].content, SENTINEL)
                /\ \A j \in 1..Len(chat'.messages[i].toolEvents) :
                      ~includes(chat'.messages[i].toolEvents[j].result, SENTINEL)
          /\ chat'.history = chat.history]_vars

\* the message was handled for a history of a user message and a memo whose
\* sentinel is spread over two text parts, and the view shows one message
C31_Witness ==
    /\ chat.received
    /\ Len(chat.history) = 2
    /\ chat.history[1].role = "user" /\ ~hidden(chat.history[1])
    /\ chat.history[1].content.kind = "string"
    /\ chat.history[2].content.kind = "array" /\ hidden(chat.history[2])
    /\ Len(chat.messages) = 1

(***************************************************************************)
(* The state after PHASE_IMPLEMENTING                                      *)
(***************************************************************************)
\* run r leaves executePhaseImplementation with its phase implemented
PhaseImplementedStep(r) ==
    /\ runs[r].currentDevState = "PHASE_IMPLEMENTING"
    /\ runs[r].pc \in {"impl", "deploy"}
    /\ runs'[r].pc \notin {"impl", "deploy"}
    /\ runs'[r].raised = "none"

\* lastPhase or a decremented counter of zero or less, and nothing queued
GoesToFinalizing(r) ==
    /\ runs[r].phaseConcept.lastPhase \/ state.phasesCounter - 1 <= 0
    /\ Len(state'.pendingUserInputs) = 0

\* C32: after a phase was implemented in PHASE_IMPLEMENTING the next state
\* is FINALIZING exactly when (phase.lastPhase or the decremented
\* phasesCounter <= 0) and pendingUserInputs is empty, and PHASE_GENERATING
\* otherwise.  FINALIZING is seen by executeFinalizing having run: MVP is
\* marked generated and the run is in FINALIZING, or past it (REVIEWING, or
\* IDLE) when the MVP had been generated before.
C32_NextStateAfterImplementing ==
    [][\A r \in RunIds :
         PhaseImplementedStep(r) =>
            IF GoesToFinalizing(r)
            THEN /\ state'.mvpGenerated
                 /\ runs'[r].currentDevState =
                       (IF ~state.mvpGenerated THEN "FINALIZING"
                        ELSE IF ~state.reviewingInitiated THEN "REVIEWING" ELSE "IDLE")
            ELSE /\ runs'[r].currentDevState = "PHASE_GENERATING"
                 /\ state'.mvpGenerated = state.mvpGenerated]_vars

\* a run in FINALIZING while a phase that was not the last is complete and
\* the counter is used up
C32_Witness ==
    \E r \in RunIds :
        /\ runs[r].currentDevState = "FINALIZING"
        /\ runs[r].pc = "fin_issues"
        /\ state.phasesCounter <= 0
        /\ \A i \in 1..Len(state.generatedPhases) :
              state.generatedPhases[i].name # FINALIZATION => ~state.generatedPhases[i].lastPhase
        /\ \E i \in 1..Len(state.generatedPhases) :
              state.generatedPhases[i].name # FINALIZATION /\ state.generatedPhases[i].completed

(***************************************************************************)
(* Commands in the sandbox                                                 *)
(***************************************************************************)
\* C33: the commands of an executeCommands call are without duplicates and
\* split into chunks of at most 5; a chunk is sent to the sandbox at most 3
\* times, and at most once when shouldRetry is false; and it is sent again
\* only after one of its failed commands was an install command, with the
\* commands the assistant gave as alternatives.
C33_BoundedRetries ==
    LET run == commandRun
    IN  /\ Cardinality(SeqRange(run.commands)) = Len(run.commands)
        /\ \A k \in 1..Len(run.chunks) :
              /\ Len(run.chunks[k]) <= 5
              /\ Len(run.chunks[k]) > 0
              /\ \A i \in 1..Len(run.chunks[k]) :
                    run.chunks[k][i] = run.commands[(k - 1) * 5 + i]
        /\ Len(run.commands) <= 5 * Len(run.chunks)
        /\ run.sends <= (IF run.shouldRetry THEN 3 ELSE 1)
        /\ run.pc = "sandbox" /\ run.resent =>
              /\ \E i \in 1..Len(run.failed) : isInstallCommand(run.failed[i])
              /\ run.currentChunk \in AlternativeCommands

\* the second chunk of a call is with the sandbox for the third time
C33_Witness ==
    /\ commandRun.pc = "sandbox"
    /\ commandRun.chunk = 2
    /\ commandRun.sends = 3
    /\ commandRun.resent

\* C34: every command in commandsHistory was run successfully in the
\* sandbox, and when executeCommands has returned every command that
\* succeeded in it has been handed to saveExecutedCommands.
C34_HistoryOfSuccessfulCommands ==
    /\ \A i \in 1..Len(commandRun.commandsHistory) :
          commandRun.commandsHistory[i] \in commandRun.succeeded
    /\ commandRun.pc = "idle" => commandRun.inExecute \subseteq commandRun.passed

(***************************************************************************)
(* The git tool without reset                                              *)
(***************************************************************************)
\* C35: a git tool created with excludeCommands ['reset'] never calls reset
\* on the git store, whatever command value its implementation receives.
C35_ExcludedResetNeverCalled ==
    gitTool.excludeCommands = {"reset"} =>
        \A i \in 1..Len(gitTool.storeCalls) : gitTool.storeCalls[i] # "reset"

(***************************************************************************)
(* The end of a deep debug session                                         *)
(***************************************************************************)
\* C36: whenever executeDeepDebug has returned (no session is running),
\* with success or failure, isDeepDebugging() is false and a new deep_debug
\* call is not rejected with DEBUG_IN_PROGRESS.
C36_NotDebuggingAfterReturn ==
    (\A d \in DebugIds : dbg[d].pc = "free") =>
        /\ ~isDeepDebugging
        /\ deep_debug(0) # "DEBUG_IN_PROGRESS"

(***************************************************************************)
(* A rename that fails                                                     *)
(***************************************************************************)
\* C37: whenever updateProjectName returns false (invalid name, sandbox
\* failure or registry failure), blueprint.projectName is unchanged and no
\* project_name_updated event is broadcast.
C37_FailedRenameChangesNothing ==
    [][ProjectCallOf("updateProjectName") /\ projectCall'.returned = "false" =>
          /\ state'.blueprint["projectName"] = state.blueprint["projectName"]
          /\ projectCall'.events = <<>>]_vars

(***************************************************************************)
(* The MVP flag and the finalization phase                                 *)
(***************************************************************************)
\* C38: whenever no run is active and mvpGenerated is true, the phase
\* 'Finalization and Review' is in generatedPhases and completed, also after
\* a finalization that failed or was cancelled.
C38_MvpMeansFinalized ==
    ActiveRuns = {} /\ state.mvpGenerated =>
        \E i \in 1..Len(state.generatedPhases) :
            /\ state.generatedPhases[i].name = FINALIZATION
            /\ state.generatedPhases[i].completed

(***************************************************************************)
(* The queue of user requests                                              *)
(***************************************************************************)
\* run r hands the pending requests to a PlanNextPhase call
HandOver(r) == runs[r].pc = "gen_issues" /\ runs'[r].pc = "plan"

\* C39: queued user requests are consumed exactly once and in order: the
\* queue changes only by a request added at its end or by a hand-over to a
\* PlanNextPhase call, which takes all the pending requests in the order
\* they were queued and leaves none behind to be handed over again.
C39_RequestsHandedOnceInOrder ==
    [][ /\ state'.pendingUserInputs # state.pendingUserInputs =>
             \/ \E request \in DistinctRequests :
                   state'.pendingUserInputs = Append(state.pendingUserInputs, request)
             \/ \E r \in RunIds : HandOver(r)
        /\ \A r \in RunIds :
              HandOver(r) => /\ runs'[r].userContext = state.pendingUserInputs
                             /\ state'.pendingUserInputs = <<>> ]_vars

\* two requests went to one PlanNextPhase call and another was queued while
\* it runs
C39_Witness ==
    \E r \in RunIds :
        /\ runs[r].pc = "plan"
        /\ Len(runs[r].userContext) = 2
        /\ Len(state.pendingUserInputs) = 1

(***************************************************************************)
(* generateFiles of a deep debug session and the phases                    *)
(***************************************************************************)
\* C40: the generateFiles operation of a deep debug session leaves
\* generatedPhases unchanged, whatever phase name it is given: when it ends
\* no phase was added and no completed flag has changed.
C40_GenerateFilesKeepsPhases ==
    [][\A d \in DebugIds :
          dbg[d].pc \in {"gen", "gen_deploy"} /\ dbg'[d].pc = "run" =>
              state'.generatedPhases = state.generatedPhases]_vars

====
